---- MODULE Spec2Model ----
(***************************************************************************)
(* omnect-ui: device-operation and network-reconfiguration state machine,  *)
(* the network settings form and the notifications of the application.     *)
(*                                                                         *)
(* The shell side (timer management, Vue watchers, dialogs) is translated  *)
(* from the TypeScript sources.  The Crux core (the Rust reducer) and the  *)
(* bridge that delivers events to it and refreshes the view model are not  *)
(* among the TypeScript sources; they are modelled from the specification. *)
(*                                                                         *)
(* Time is measured in milliseconds.  It advances only to the next timer   *)
(* expiry, and only when every event that has arrived has been processed.  *)
(***************************************************************************)
EXTENDS Integers, Sequences, FiniteSets, TLC

VARIABLES
    model,                \* the Model owned by the reducer
    inbox,                \* events that have arrived, in arrival order
    timers,               \* the four timer ids: ms until expiry, null when not armed
    commandPending,       \* command request in flight ("None" when none)
    probesInFlight,       \* reachability probes in flight
    dialog,               \* confirmation dialog that is open ("None" when none)
    opElapsed,            \* ms the current (or just ended) operation has been running
    pushes,               \* channel pushes delivered so far
    lastEvent,            \* type and result of the event the reducer processed last
    networkPending,       \* network-config request in flight (NoConfig when none)
    newIpProbesInFlight,  \* new-IP reachability probes in flight
    redirectedTo,         \* address the page was redirected to ("none" before any redirect)
    page,                 \* window.location.replace calls made, and whether the page is gone
    localForm,            \* local fields and flags of the network settings form
    app,                  \* notification flags of App.vue and its mount-time fetch
    device                \* what the device reports: results and their acknowledgement

deviceVars == << commandPending, probesInFlight, dialog, opElapsed >>

networkVars == << networkPending, newIpProbesInFlight, redirectedTo, page >>

trackerVars == << app, device >>

vars == << model, inbox, timers, pushes, lastEvent, deviceVars, networkVars, localForm,
          trackerVars >>

----------------------------------------------------------------------------
(* Bounds *)

MaxInbox == 2
MaxProbes == 1
MaxPushes == 1

----------------------------------------------------------------------------
(* Timer constants *)

RECONNECTION_POLL_INTERVAL_MS == 5000
REBOOT_TIMEOUT_MS == 300000
FACTORY_RESET_TIMEOUT_MS == 600000
NEW_IP_POLL_INTERVAL_MS == 5000
NEW_IP_TIMEOUT_MS == 90000

null == -1

Operations == {"Reboot", "FactoryReset", "Update"}

OperationStates == {"rebooting", "factory_resetting", "updating"}

InProgressStates == OperationStates \cup {"waiting_reconnection"}

TerminalStates == {"reconnection_successful", "reconnection_failed"}

ValidationStatuses == {"NoUpdate", "Succeeded", "Recovered"}

NoConfig == [newIp |-> "none", switchingToDhcp |-> FALSE, isCurrentConnection |-> FALSE]

\* Changes of the adapter the client is connected through.
NetworkConfigs ==
    [newIp : {"192.0.2.2"}, switchingToDhcp : BOOLEAN, isCurrentConnection : {TRUE}]

\* Addresses of the adapter shown in the network settings form: the address
\* the form was opened with, a pushed one and one only the operator types.
AdapterIps == {"192.168.1.50", "192.168.100.50"}

FormIps == AdapterIps \cup {"192.168.1.99"}

UiPort == "1977"

Min(S) == CHOOSE x \in S : \A y \in S : x <= y

----------------------------------------------------------------------------
(* Events *)

\* What an event carries besides its result: the other form fields, or the
\* rollback choice sent with a network configuration ("null" when none is sent).
NoData == [dhcp |-> FALSE, dns |-> "8.8.8.8", isCurrentConnection |-> FALSE,
           enableRollback |-> "null"]

\* The acknowledgement fields of a healthcheck payload (a device with nothing
\* to report).
NoHealth == [updateValidationAcked |-> TRUE, networkRollbackOccurred |-> FALSE,
             factoryResetResultAcked |-> TRUE]

Ev(t, op, res) ==
    [type |-> t, operation |-> op, result |-> res, config |-> NoConfig, data |-> NoData,
     health |-> NoHealth]

NetEv(t, res, cfg) ==
    [type |-> t, operation |-> "None", result |-> res, config |-> cfg, data |-> NoData,
     health |-> NoHealth]

FormEv(t, ip, d) ==
    [type |-> t, operation |-> "None", result |-> ip, config |-> NoConfig, data |-> d,
     health |-> NoHealth]

ConfigEv(cfg, d) ==
    [type |-> "SetNetworkConfig", operation |-> "None", result |-> "none",
     config |-> cfg, data |-> d, health |-> NoHealth]

HealthEv(res, h) ==
    [type |-> "HealthcheckResponse", operation |-> "None", result |-> res,
     config |-> NoConfig, data |-> NoData, health |-> h]

----------------------------------------------------------------------------
(* Event Reducer: (Model, Event) -> (Model, Effects) *)

Idle == [type |-> "idle", operation |-> "None"]

NetworkIdle == [type |-> "idle", newIp |-> "none", uiPort |-> "none", switchingToDhcp |-> FALSE]

OperationState(op) ==
    CASE op = "Reboot" -> [type |-> "rebooting", operation |-> op]
      [] op = "FactoryReset" -> [type |-> "factory_resetting", operation |-> op]
      [] OTHER -> [type |-> "updating", operation |-> op]

AcceptablePayload_AlwaysValidated(op, status) ==
    status \in {"Succeeded", "Recovered"}

AcceptablePayload(op, status) ==
    op = "Update" => status \in {"Succeeded", "Recovered"}

Http(a) == [effect |-> "IssueHttpRequest", arg |-> a]

NoOp(m) == [model |-> m, effects |-> << >>]

handleCommand(m, e) ==
    IF m.deviceOperationState.type = "idle"
    THEN [model |-> m, effects |-> << Http(e.operation) >>]
    ELSE NoOp(m)

handleCommandResponse_IgnoresResult(m, e) ==
    IF m.deviceOperationState.type = "idle"
    THEN [model |-> [m EXCEPT !.deviceOperationState = OperationState(e.operation)],
          effects |-> << >>]
    ELSE NoOp(m)

handleCommandResponse(m, e) ==
    IF e.result = "ok" /\ m.deviceOperationState.type = "idle"
    THEN [model |-> [m EXCEPT !.deviceOperationState = OperationState(e.operation)],
          effects |-> << >>]
    ELSE NoOp(m)

handleReconnectionCheckTick_NoStaleGuard(m) ==
    LET s == m.deviceOperationState IN
    IF s.type \in OperationStates
    THEN [model |-> [m EXCEPT !.deviceOperationState =
                        [type |-> "waiting_reconnection", operation |-> s.operation]],
          effects |-> << Http("healthcheck") >>]
    ELSE [model |-> m, effects |-> << Http("healthcheck") >>]

handleReconnectionCheckTick(m) ==
    LET s == m.deviceOperationState IN
    IF s.type \in OperationStates
    THEN [model |-> [m EXCEPT !.deviceOperationState =
                        [type |-> "waiting_reconnection", operation |-> s.operation]],
          effects |-> << Http("healthcheck") >>]
    ELSE IF s.type = "waiting_reconnection"
    THEN [model |-> m, effects |-> << Http("healthcheck") >>]
    ELSE NoOp(m)

\* The healthcheck of the Model before any response has been received.
NoHealthcheck == [fetched |-> FALSE, updateValidationAcked |-> TRUE,
                  networkRollbackOccurred |-> FALSE, factoryResetResultAcked |-> TRUE]

storeHealthcheck_TakesStatus(m, e) ==
    IF e.result = "error" THEN m
    ELSE [m EXCEPT !.updateValidationStatus = e.result,
                   !.healthcheck =
              [fetched |-> TRUE,
               updateValidationAcked |-> e.health.updateValidationAcked,
               networkRollbackOccurred |-> e.health.networkRollbackOccurred,
               factoryResetResultAcked |-> e.health.factoryResetResultAcked]]

\* The last-known healthcheck snapshot is refreshed by every response.
storeHealthcheck(m, e) ==
    IF e.result = "error" THEN m
    ELSE [m EXCEPT !.healthcheck =
              [fetched |-> TRUE,
               updateValidationAcked |-> e.health.updateValidationAcked,
               networkRollbackOccurred |-> e.health.networkRollbackOccurred,
               factoryResetResultAcked |-> e.health.factoryResetResultAcked]]

handleHealthcheckResponse_FailureFails(m, e) ==
    LET s == m.deviceOperationState IN
    IF s.type = "waiting_reconnection" /\ e.result = "error"
    THEN [model |-> [m EXCEPT !.deviceOperationState =
                        [type |-> "reconnection_failed", operation |-> s.operation]],
          effects |-> << >>]
    ELSE IF s.type = "waiting_reconnection" /\ AcceptablePayload(s.operation, e.result)
    THEN [model |-> [storeHealthcheck(m, e) EXCEPT !.deviceOperationState =
                        [type |-> "reconnection_successful", operation |-> s.operation]],
          effects |-> << >>]
    ELSE NoOp(storeHealthcheck(m, e))

handleHealthcheckResponse(m, e) ==
    LET s == m.deviceOperationState IN
    IF s.type = "waiting_reconnection" /\ e.result # "error"
       /\ AcceptablePayload(s.operation, e.result)
    THEN [model |-> [storeHealthcheck(m, e) EXCEPT !.deviceOperationState =
                        [type |-> "reconnection_successful", operation |-> s.operation]],
          effects |-> << >>]
    ELSE NoOp(storeHealthcheck(m, e))

\* A push on the UpdateValidationStatus channel.
handleUpdateValidationStatus(m, e) ==
    [model |-> [m EXCEPT !.updateValidationStatus = e.result], effects |-> << >>]

\* A push on the FactoryReset channel carrying the result of the reset.
handleFactoryResetResult(m, e) ==
    [model |-> [m EXCEPT !.factoryResetResult = e.result], effects |-> << >>]

\* The acknowledgements: the request is sent to the device, and the last-known
\* healthcheck (when there is one) is brought in line at once.
handleAckRollback(m) ==
    [model |-> IF m.healthcheck.fetched
               THEN [m EXCEPT !.healthcheck.networkRollbackOccurred = FALSE] ELSE m,
     effects |-> << Http("ack-rollback") >>]

handleAckFactoryResetResult(m) ==
    [model |-> IF m.healthcheck.fetched
               THEN [m EXCEPT !.healthcheck.factoryResetResultAcked = TRUE] ELSE m,
     effects |-> << Http("ack-factory-reset-result") >>]

handleAckUpdateValidation(m) ==
    [model |-> IF m.healthcheck.fetched
               THEN [m EXCEPT !.healthcheck.updateValidationAcked = TRUE] ELSE m,
     effects |-> << Http("ack-update-validation") >>]

handleReconnectionTimeout_AnyState(m) ==
    LET s == m.deviceOperationState IN
    IF s.type # "idle"
    THEN [model |-> [m EXCEPT !.deviceOperationState =
                        [type |-> "reconnection_failed", operation |-> s.operation]],
          effects |-> << >>]
    ELSE NoOp(m)

handleReconnectionTimeout(m) ==
    LET s == m.deviceOperationState IN
    IF s.type = "waiting_reconnection"
    THEN [model |-> [m EXCEPT !.deviceOperationState =
                        [type |-> "reconnection_failed", operation |-> s.operation]],
          effects |-> << >>]
    ELSE NoOp(m)

handleDismiss_AnyState(m) ==
    [model |-> [m EXCEPT !.deviceOperationState = Idle], effects |-> << >>]

handleDismiss(m) ==
    IF m.deviceOperationState.type \in TerminalStates
    THEN [model |-> [m EXCEPT !.deviceOperationState = Idle], effects |-> << >>]
    ELSE NoOp(m)

handleOnlineStatus(m, e) ==
    [model |-> [m EXCEPT !.onlineStatus = e.result], effects |-> << >>]

Submitting(fs) == IF fs.type = "editing" THEN [fs EXCEPT !.type = "submitting"] ELSE fs

Submitted(fs, ok, ip) ==
    IF fs.type # "submitting" THEN fs
    ELSE IF ok THEN [fs EXCEPT !.type = "editing", !.ipAddress = ip, !.dirty = FALSE]
    ELSE [fs EXCEPT !.type = "editing"]

handleSetNetworkConfig(m, e) ==
    IF m.networkChangeState.type = "idle"
    THEN [model |-> [m EXCEPT !.networkFormState = Submitting(@)],
          effects |-> << Http("network") >>]
    ELSE NoOp(m)

handleSetNetworkConfigResponse(m, e) ==
    LET fs == Submitted(m.networkFormState, e.result = "ok", e.config.newIp) IN
    IF e.result = "ok" /\ m.networkChangeState.type = "idle" /\ e.config.isCurrentConnection
    THEN [model |-> [m EXCEPT !.networkFormState = fs,
                              !.networkChangeState =
                        [type |-> "waiting_for_new_ip", newIp |-> e.config.newIp,
                         uiPort |-> UiPort, switchingToDhcp |-> e.config.switchingToDhcp]],
          effects |-> << >>]
    ELSE [model |-> [m EXCEPT !.networkFormState = fs], effects |-> << >>]

NotEditing == [type |-> "not_editing", ipAddress |-> "none", dhcp |-> FALSE,
               dns |-> "8.8.8.8", dirty |-> FALSE, isCurrentConnection |-> FALSE]

\* The last known state of the adapter: address in networkStatus, the rest in
\* networkAdapter.
AdapterForm(m, cur) ==
    [type |-> "editing", ipAddress |-> m.networkStatus, dhcp |-> m.networkAdapter.dhcp,
     dns |-> m.networkAdapter.dns, dirty |-> FALSE, isCurrentConnection |-> cur]

handleNetworkFormStartEdit(m, e) ==
    [model |-> [m EXCEPT !.networkFormState = AdapterForm(m, e.data.isCurrentConnection)],
     effects |-> << >>]

handleNetworkFormUpdate(m, e) ==
    IF m.networkFormState.type = "editing"
    THEN [model |-> [m EXCEPT !.networkFormState =
                        [@ EXCEPT !.ipAddress = e.result, !.dhcp = e.data.dhcp,
                                  !.dns = e.data.dns,
                                  !.dirty = \/ e.result # m.networkStatus
                                            \/ e.data.dhcp # m.networkAdapter.dhcp
                                            \/ e.data.dns # m.networkAdapter.dns]],
          effects |-> << >>]
    ELSE NoOp(m)

handleNetworkFormReset(m) ==
    IF m.networkFormState.type = "editing"
    THEN [model |-> [m EXCEPT !.networkFormState =
                        AdapterForm(m, m.networkFormState.isCurrentConnection)],
          effects |-> << >>]
    ELSE NoOp(m)

handleNetworkStatus(m, e) ==
    LET fs == m.networkFormState
        adapter == [dhcp |-> e.data.dhcp, dns |-> e.data.dns]
    IN
    [model |-> [m EXCEPT !.networkStatus = e.result,
                         !.networkAdapter = adapter,
                         !.networkFormState =
                             IF fs.type = "editing" /\ ~fs.dirty
                             THEN [fs EXCEPT !.ipAddress = e.result, !.dhcp = adapter.dhcp,
                                             !.dns = adapter.dns]
                             ELSE fs],
     effects |-> << >>]

\* Projection: a change of the adapter the client is connected through needs
\* the operator's confirmation.
shouldShowRollbackModal(m) ==
    LET fs == m.networkFormState IN
    fs.type = "editing" /\ fs.dirty /\ fs.isCurrentConnection

\* Projection: the default of the rollback option is disabled when the change
\* switches the adapter from static addressing to DHCP, enabled otherwise.
defaultRollbackEnabled(m) ==
    ~(~m.networkAdapter.dhcp /\ m.networkFormState.dhcp)

handleNewIpCheckTick(m) ==
    IF m.networkChangeState.type = "waiting_for_new_ip"
    THEN [model |-> m, effects |-> << Http("newip") >>]
    ELSE NoOp(m)

handleNewIpProbeResponse(m, e) ==
    LET s == m.networkChangeState IN
    IF s.type = "waiting_for_new_ip" /\ e.result = "ok"
    THEN [model |-> [m EXCEPT !.networkChangeState =
                        [type |-> "new_ip_reachable", newIp |-> s.newIp,
                         uiPort |-> "none", switchingToDhcp |-> FALSE]],
          effects |-> << >>]
    ELSE NoOp(m)

handleNewIpCheckTimeout(m) ==
    LET s == m.networkChangeState IN
    IF s.type = "waiting_for_new_ip"
    THEN [model |-> [m EXCEPT !.networkChangeState =
                        [type |-> "new_ip_timeout", newIp |-> s.newIp,
                         uiPort |-> s.uiPort, switchingToDhcp |-> FALSE]],
          effects |-> << >>]
    ELSE NoOp(m)

handleDismissNetwork(m) ==
    IF m.networkChangeState.type = "new_ip_timeout"
    THEN [model |-> [m EXCEPT !.networkChangeState = NetworkIdle], effects |-> << >>]
    ELSE NoOp(m)

\* A request was answered with 401: the session is no longer authenticated.
handleUnauthorized(m) ==
    [model |-> [m EXCEPT !.isAuthenticated = FALSE], effects |-> << >>]

\* The response to the login request.
handleLoginResponse(m, e) ==
    IF e.result = "ok"
    THEN [model |-> [m EXCEPT !.isAuthenticated = TRUE], effects |-> << >>]
    ELSE NoOp(m)

\* The password is to be set: the request is sent, old messages are cleared.
handleSetPassword(m) ==
    [model |-> [m EXCEPT !.errorMessage = "none", !.successMessage = "none"],
     effects |-> << Http("set-password") >>]

\* The response to the set-password request: success logs the operator in.
handleSetPasswordResponse(m, e) ==
    IF e.result = "ok"
    THEN [model |-> [m EXCEPT !.isAuthenticated = TRUE,
                              !.successMessage = "Password set successfully"],
          effects |-> << >>]
    ELSE [model |-> [m EXCEPT !.errorMessage = "Setting the password failed"],
          effects |-> << >>]

update(m, e) ==
    CASE e.type = "Command" -> handleCommand(m, e)
      [] e.type = "SetPassword" -> handleSetPassword(m)
      [] e.type = "SetPasswordResponse" -> handleSetPasswordResponse(m, e)
      [] e.type = "CommandResponse" ->
            IF e.result = "unauthorized" THEN handleUnauthorized(m)
            ELSE handleCommandResponse(m, e)
      [] e.type = "LoginResponse" -> handleLoginResponse(m, e)
      [] e.type = "Unauthorized" -> handleUnauthorized(m)
      [] e.type = "ReconnectionCheckTick" -> handleReconnectionCheckTick(m)
      [] e.type = "HealthcheckResponse" -> handleHealthcheckResponse(m, e)
      [] e.type = "ReconnectionTimeout" -> handleReconnectionTimeout(m)
      [] e.type = "Dismiss" -> handleDismiss(m)
      [] e.type = "OnlineStatus" -> handleOnlineStatus(m, e)
      [] e.type = "SetNetworkConfig" -> handleSetNetworkConfig(m, e)
      [] e.type = "SetNetworkConfigResponse" -> handleSetNetworkConfigResponse(m, e)
      [] e.type = "NewIpCheckTick" -> handleNewIpCheckTick(m)
      [] e.type = "NewIpProbeResponse" -> handleNewIpProbeResponse(m, e)
      [] e.type = "NewIpCheckTimeout" -> handleNewIpCheckTimeout(m)
      [] e.type = "DismissNetwork" -> handleDismissNetwork(m)
      [] e.type = "NetworkFormStartEdit" -> handleNetworkFormStartEdit(m, e)
      [] e.type = "NetworkFormUpdate" -> handleNetworkFormUpdate(m, e)
      [] e.type = "NetworkFormReset" -> handleNetworkFormReset(m)
      [] e.type = "NetworkStatus" -> handleNetworkStatus(m, e)
      [] e.type = "UpdateValidationStatus" -> handleUpdateValidationStatus(m, e)
      [] e.type = "FactoryResetResult" -> handleFactoryResetResult(m, e)
      [] e.type = "AckRollback" -> handleAckRollback(m)
      [] e.type = "AckFactoryResetResult" -> handleAckFactoryResetResult(m)
      [] e.type = "AckUpdateValidation" -> handleAckUpdateValidation(m)
      [] OTHER -> NoOp(m)

----------------------------------------------------------------------------
(* Timer management *)

\* The four timer ids of the module; orphans holds the ids whose variable was
\* overwritten while its timer was still running, a timer that nothing can
\* cancel any more.
TimerIds == {"reconnectionIntervalId", "reconnectionTimeoutId",
             "newIpIntervalId", "newIpTimeoutId"}

NoTimers == [reconnectionIntervalId |-> null, reconnectionTimeoutId |-> null,
             newIpIntervalId |-> null, newIpTimeoutId |-> null, orphans |-> {}]

\* id = setInterval(...) and id = setTimeout(...)
setTimer(tm, id, ms) ==
    [tm EXCEPT ![id] = ms, !.orphans = IF tm[id] # null THEN @ \cup {id} ELSE @]

stopReconnectionPolling_KeepsInterval(tm) ==
    [tm EXCEPT !.reconnectionTimeoutId = null]

stopReconnectionPolling(tm) ==
    [tm EXCEPT !.reconnectionIntervalId = null, !.reconnectionTimeoutId = null]

\* "Clear any existing timers", the first statement of startReconnectionPolling
clearExistingTimers_Skipped(tm) == tm

clearExistingTimers(tm) == stopReconnectionPolling(tm)

startReconnectionPolling_NoTimeout(tm, isFactoryReset) ==
    LET cleared == clearExistingTimers(tm)
    IN  setTimer(cleared, "reconnectionIntervalId", RECONNECTION_POLL_INTERVAL_MS)

startReconnectionPolling(tm, isFactoryReset) ==
    LET cleared == clearExistingTimers(tm)
        timeoutMs == IF isFactoryReset THEN FACTORY_RESET_TIMEOUT_MS ELSE REBOOT_TIMEOUT_MS
    IN  setTimer(setTimer(cleared, "reconnectionIntervalId", RECONNECTION_POLL_INTERVAL_MS),
                 "reconnectionTimeoutId", timeoutMs)

stopNewIpPolling(tm) ==
    [tm EXCEPT !.newIpIntervalId = null, !.newIpTimeoutId = null]

startNewIpPolling_ClearsReconnection(tm) ==
    LET cleared == stopReconnectionPolling(stopNewIpPolling(tm))
    IN  setTimer(setTimer(cleared, "newIpIntervalId", NEW_IP_POLL_INTERVAL_MS),
                 "newIpTimeoutId", NEW_IP_TIMEOUT_MS)

startNewIpPolling(tm) ==
    LET cleared == stopNewIpPolling(tm)
    IN  setTimer(setTimer(cleared, "newIpIntervalId", NEW_IP_POLL_INTERVAL_MS),
                 "newIpTimeoutId", NEW_IP_TIMEOUT_MS)

\* The argument of startReconnectionPolling in the watcher on
\* device_operation_state: only a factory reset asks for the longer deadline.
isFactoryReset_OrUpdate(newType) == newType \in {"factory_resetting", "updating"}

isFactoryReset(newType) == newType = "factory_resetting"

watchDeviceOperationState_NoStopOnSuccess(tm, newType, oldType) ==
    IF newType \in {"rebooting", "factory_resetting", "updating"}
    THEN startReconnectionPolling(tm, isFactoryReset(newType))
    ELSE IF oldType \in {"rebooting", "factory_resetting", "updating", "waiting_reconnection"}
            /\ newType \in {"idle", "reconnection_failed"}
    THEN stopReconnectionPolling(tm)
    ELSE tm

watchDeviceOperationState(tm, newType, oldType) ==
    IF newType \in {"rebooting", "factory_resetting", "updating"}
    THEN startReconnectionPolling(tm, isFactoryReset(newType))
    ELSE IF oldType \in {"rebooting", "factory_resetting", "updating", "waiting_reconnection"}
            /\ newType \in {"idle", "reconnection_successful", "reconnection_failed"}
    THEN stopReconnectionPolling(tm)
    ELSE tm

watchNetworkChangeState_NoStop(tm, newType, oldType) ==
    IF newType = "waiting_for_new_ip"
    THEN startNewIpPolling(tm)
    ELSE tm

watchNetworkChangeState(tm, newType, oldType) ==
    IF newType = "waiting_for_new_ip"
    THEN startNewIpPolling(tm)
    ELSE IF oldType = "waiting_for_new_ip"
    THEN stopNewIpPolling(tm)
    ELSE tm

\* Both watchers run whenever the view model has been refreshed.
runWatchers(tm, new, old) ==
    watchNetworkChangeState(
        watchDeviceOperationState(tm, new.deviceOperationState.type,
                                  old.deviceOperationState.type),
        new.networkChangeState.type, old.networkChangeState.type)

----------------------------------------------------------------------------
(* Network settings form *)

syncLocalFieldsFromCore_AddressOnly(lf, formData) ==
    [lf EXCEPT !.ipAddress = formData.ipAddress]

syncLocalFieldsFromCore(lf, formData) ==
    [lf EXCEPT !.ipAddress = formData.ipAddress,
               !.dns = formData.dns,
               !.addressAssignment = IF formData.dhcp THEN "dhcp" ELSE "static"]

watchNetworkFormState_NoDirtyGuard(lf, state) ==
    IF state.type = "editing"
    THEN syncLocalFieldsFromCore(lf, state)
    ELSE lf

\* watch(() => viewModel.networkFormState): a clean form follows the core.
watchNetworkFormState(lf, state) ==
    IF state.type = "editing" /\ ~state.dirty
    THEN syncLocalFieldsFromCore(lf, state)
    ELSE lf

\* watch(() => viewModel.networkFormState): the submit flag follows the core.
watchSubmitting(lf, state) ==
    IF lf.isSubmitting /\ state.type # "submitting"
    THEN [lf EXCEPT !.isSubmitting = FALSE]
    ELSE lf

\* watch(() => viewModel.shouldShowRollbackModal): the checkbox takes the
\* default when the modal becomes required.
watchShouldShowRollbackModal(lf, new, old) ==
    IF shouldShowRollbackModal(new) /\ ~shouldShowRollbackModal(old)
    THEN [lf EXCEPT !.enableRollback = defaultRollbackEnabled(new)]
    ELSE lf

runFormWatchers_SubmitFlagOnly(lf, state) == watchSubmitting(lf, state)

runFormWatchers(lf, state) == watchSubmitting(watchNetworkFormState(lf, state), state)

\* sendFormUpdateToCore: the local fields as form data.
FormData(lf) == [NoData EXCEPT !.dhcp = (lf.addressAssignment = "dhcp"), !.dns = lf.dns]

\* The refs the field watcher watches.
LocalFields(lf) == << lf.ipAddress, lf.dns, lf.addressAssignment >>

\* isSyncingFromCore as the field watcher finds it when the watcher on
\* networkFormState has run: syncLocalFieldsFromCore sets it, and the nextTick
\* callback that resets it runs after the watchers the sync has triggered.
isSyncingFromCore_ResetAtOnce(state) == FALSE

isSyncingFromCore(state) == state.type = "editing" /\ ~state.dirty

\* watch([ipAddress, dns, gateways, addressAssignment, subnetMask]): what it
\* sends to the core when the watchers of the view model have changed the
\* local fields from lfOld to lf.
watchLocalFields(lf, lfOld, state) ==
    IF LocalFields(lf) # LocalFields(lfOld) /\ ~lf.isSubmitting /\ ~isSyncingFromCore(state)
    THEN << FormEv("NetworkFormUpdate", lf.ipAddress, FormData(lf)) >>
    ELSE << >>

\* The view model is refreshed when the reducer changed the Model.
\* viewModel.healthcheck?.networkRollbackOccurred (undefined before a response)
rollbackOccurred(m) == m.healthcheck.fetched /\ m.healthcheck.networkRollbackOccurred

watchNetworkRollbackOccurred_OnlyFromFalse(a, new, old) ==
    IF rollbackOccurred(new) /\ old.healthcheck.fetched /\ ~rollbackOccurred(old)
    THEN [a EXCEPT !.showRollbackNotification = TRUE]
    ELSE a

\* watch(() => viewModel.healthcheck?.networkRollbackOccurred)
watchNetworkRollbackOccurred(a, new, old) ==
    IF rollbackOccurred(new) /\ ~rollbackOccurred(old)
    THEN [a EXCEPT !.showRollbackNotification = TRUE]
    ELSE a

\* watch(() => viewModel.factoryReset?.result)
watchFactoryResetResult(a, new, old) ==
    IF /\ new.factoryResetResult # old.factoryResetResult
       /\ new.factoryResetResult # "unknown"
       /\ ~a.factoryResetAckedOnMount
    THEN [a EXCEPT !.showFactoryResetResultModal = TRUE]
    ELSE a

\* viewModel.healthcheck?.updateValidationAcked
ackedInHealthcheck(m) ==
    IF ~m.healthcheck.fetched THEN "undefined"
    ELSE IF m.healthcheck.updateValidationAcked THEN "true" ELSE "false"

\* The three sources of the update-validation watcher.
updateValidationSources(a, m) ==
    << m.updateValidationStatus, ackedInHealthcheck(m), a.updateValidationAckedOnMount >>

notAcked_PrefersMountFlag(a, m) == ~a.updateValidationAckedOnMount

\* const notAcked = !(ackedInHealthcheck ?? ackedOnMount)
notAcked(a, m) ==
    ~(IF m.healthcheck.fetched THEN m.healthcheck.updateValidationAcked
      ELSE a.updateValidationAckedOnMount)

watchUpdateValidation_NeverRollback(a, aOld, new, old) ==
    IF updateValidationSources(a, new) = updateValidationSources(aOld, old) THEN a
    ELSE IF new.updateValidationStatus \in {"Succeeded", "Recovered"} /\ notAcked(a, new)
         THEN [a EXCEPT !.updateValidationIsRollback = FALSE,
                        !.showUpdateValidationModal = TRUE]
         ELSE a

\* watch([status, healthcheck.updateValidationAcked, updateValidationAckedOnMount]):
\* a is the state after the assignments of the running handler, aOld before.
watchUpdateValidation(a, aOld, new, old) ==
    IF updateValidationSources(a, new) = updateValidationSources(aOld, old) THEN a
    ELSE IF new.updateValidationStatus \in {"Succeeded", "Recovered"} /\ notAcked(a, new)
         THEN [a EXCEPT !.updateValidationIsRollback =
                            (new.updateValidationStatus = "Recovered"),
                        !.showUpdateValidationModal = TRUE]
         ELSE a

\* The watchers of App.vue on the notifications.
runAppWatchers(a, aOld, new, old) ==
    watchUpdateValidation(
        watchFactoryResetResult(watchNetworkRollbackOccurred(a, new, old), new, old),
        aOld, new, old)

refreshed(new, old) == new # old

\* No URL (undefined); the host of the page itself is "self".
NoUrl == [protocol |-> "none", host |-> "none", port |-> "none"]

\* The argument of window.location.replace in the watcher on
\* network_change_state: protocol and port are those of the page, and an empty
\* port is left out.
replaceUrl(location, newIp) ==
    [protocol |-> location.protocol, host |-> newIp, port |-> location.port]

\* redirectUrl of App.vue, the manual link of the overlay.
redirectUrl(m, location) ==
    LET networkState == m.networkChangeState IN
    IF networkState.type \in {"waiting_for_new_ip", "new_ip_timeout"}
       /\ ~networkState.switchingToDhcp
    THEN [protocol |-> "https:", host |-> networkState.newIp, port |-> networkState.uiPort]
    ELSE IF m.deviceOperationState.type = "reconnection_failed"
    THEN [protocol |-> location.protocol, host |-> "self", port |-> location.port]
    ELSE NoUrl

\* The address a URL leads to: a URL without a port leads to the default port
\* of its protocol.
Address(url) ==
    [url EXCEPT !.port = IF @ = "" THEN (IF url.protocol = "https:" THEN "443" ELSE "80")
                         ELSE @]

\* Routes that need a session (route.meta.requiresAuth).
requiresAuth(route) == route \notin {"/login", "/set-password"}

\* watch(() => viewModel.isAuthenticated) of App.vue
watchIsAuthenticated(pg, new, old) ==
    IF new.isAuthenticated = old.isAuthenticated THEN pg
    ELSE IF new.isAuthenticated THEN [pg EXCEPT !.subscribed = TRUE]
    ELSE [pg EXCEPT !.subscribed = FALSE,
                    !.route = IF requiresAuth(pg.route) THEN "/login" ELSE pg.route]

\* watch(() => viewModel.is_authenticated) of Login.vue
watchLoginAuthenticated(pg, new, old) ==
    IF pg.route = "/login" /\ new.isAuthenticated /\ ~old.isAuthenticated
    THEN [pg EXCEPT !.route = "/"]
    ELSE pg

\* watch(() => viewModel.device_operation_state, ..., { deep: true }) of
\* UpdateFileUpload.vue: the selected file is cleared once an update is over.
watchUploadOperationState(pg, new, old) ==
    IF refreshed(new, old)
       /\ new.deviceOperationState = [type |-> "reconnection_successful", operation |-> "Update"]
    THEN [pg EXCEPT !.updateFile = "undefined"]
    ELSE pg

runPageWatchers(pg, new, old) ==
    watchUploadOperationState(
        watchLoginAuthenticated(watchIsAuthenticated(pg, new, old), new, old),
        new, old)

----------------------------------------------------------------------------
(* Initial state *)

\* A device that has nothing to report.
QuietDevice == [updateValidationStatus |-> "NoUpdate", updateValidationAcked |-> TRUE,
                networkRollbackOccurred |-> FALSE,
                factoryResetResult |-> "unknown", factoryResetResultAcked |-> TRUE,
                offline |-> "no", cycles |-> 0, replays |-> 0, repeatedAcks |-> 0]

\* The Model of a freshly loaded core.
InitModel ==
    [deviceOperationState |-> Idle, networkChangeState |-> NetworkIdle,
     onlineStatus |-> "online", networkStatus |-> "192.168.1.50",
     networkAdapter |-> [dhcp |-> FALSE, dns |-> "8.8.8.8"],
     networkFormState |-> NotEditing,
     healthcheck |-> NoHealthcheck, updateValidationStatus |-> "undefined",
     factoryResetResult |-> "unknown", isAuthenticated |-> TRUE,
     errorMessage |-> "none", successMessage |-> "none"]

\* The refs of App.vue as the setup script creates them.
InitApp ==
    [showRollbackNotification |-> FALSE, showFactoryResetResultModal |-> FALSE,
     showUpdateValidationModal |-> FALSE, factoryResetAckedOnMount |-> TRUE,
     updateValidationAckedOnMount |-> TRUE, updateValidationIsRollback |-> FALSE,
     mountFetch |-> "pending", updateValidationAcknowledged |-> FALSE]

\* The refs of the network settings form as the setup script creates them.
InitLocalForm ==
    [ipAddress |-> "192.168.1.50", addressAssignment |-> "static",
     dns |-> "8.8.8.8", isCurrentConnection |-> FALSE,
     isSubmitting |-> FALSE, enableRollback |-> TRUE,
     confirmationModalOpen |-> FALSE]

\* The refs of SetPassword.vue as the setup script creates them; submits counts
\* the calls of handleSubmit, requests the set-password requests sent, and
\* waiting tells that handleSubmit waits to read the answer of the core.
NoPasswordForm ==
    [password |-> "", repeatPassword |-> "", errorMsg |-> "",
     submits |-> 0, requests |-> 0, pending |-> FALSE, waiting |-> FALSE]

\* A ref that holds null.
NullRef == "null"

\* The refs of a component that is not mounted do not exist.
Unmounted == [mounted |-> FALSE]

\* The refs of DeviceNetworks.vue (tab, pendingTab, showUnsavedChangesDialog) and
\* of the network page (showNavigationDialog, pendingNavigation) as the setup
\* scripts create them. oldTab is the value the watcher on tab has seen last:
\* the watcher runs before the page is rendered, so oldTab is the tab whose
\* window item is shown. pendingNavigation holds the route of the saved next
\* callback.
InitNavigation ==
    [tab |-> NullRef, oldTab |-> NullRef, pendingTab |-> NullRef,
     showUnsavedChangesDialog |-> FALSE, showNavigationDialog |-> FALSE,
     pendingNavigation |-> NullRef]

\* The page of a logged-in operator on a protected route: the watcher on
\* viewModel.isAuthenticated has run at once and subscribed the channels.
\* Neither the set-password page nor the network page is mounted.
LoadedPage ==
    [replaceCalls |-> 0, unloaded |-> FALSE, reloads |-> 0,
     route |-> "/", subscribed |-> TRUE,
     uploadFetching |-> FALSE, uploadStatus |-> 0, posts |-> 0,
     updateFile |-> "undefined", formData |-> "undefined",
     fileUploaded |-> "none", uploadError |-> "none",
     location |-> [protocol |-> "https:", port |-> UiPort], replaceUrl |-> NoUrl,
     setPassword |-> Unmounted, nav |-> Unmounted]

InitPage ==
    /\ model = InitModel
    /\ app = InitApp
    /\ localForm = InitLocalForm
    /\ inbox = << >>
    /\ timers = NoTimers
    /\ commandPending = "None"
    /\ probesInFlight = 0
    /\ dialog = "None"
    /\ opElapsed = 0
    /\ pushes = 0
    /\ lastEvent = [type |-> "None", result |-> "none"]
    /\ networkPending = NoConfig
    /\ newIpProbesInFlight = 0
    /\ redirectedTo = "none"
    /\ page = LoadedPage

Init == InitPage /\ device = QuietDevice

\* The scripts of the page run until the navigation started by
\* window.location.replace unloads it.
PageAlive == ~page.unloaded

----------------------------------------------------------------------------
(* Arrival of events *)

Arrive(e) ==
    /\ PageAlive
    /\ Len(inbox) < MaxInbox
    /\ inbox' = Append(inbox, e)

Queued(t) == \E i \in 1..Len(inbox) : inbox[i].type = t

\* The overlay shown during a device operation or a network change blocks the
\* controls that start another one.
DeviceQuiet ==
    /\ model.deviceOperationState.type = "idle"
    /\ commandPending = "None"
    /\ dialog = "None"
    /\ ~Queued("Command") /\ ~Queued("CommandResponse")

NetworkQuiet ==
    /\ model.networkChangeState.type = "idle"
    /\ networkPending = NoConfig
    /\ ~Queued("SetNetworkConfig") /\ ~Queued("SetNetworkConfigResponse")

\* The operator opens the confirmation dialog of a device command.
OpenDialog(op) ==
    /\ PageAlive
    /\ requiresAuth(page.route)
    /\ dialog = "None"
    /\ commandPending = "None"
    /\ model.deviceOperationState.type = "idle"
    /\ ~Queued("Command") /\ ~Queued("CommandResponse")
    /\ NetworkQuiet
    /\ dialog' = op
    /\ UNCHANGED << trackerVars, localForm, model, inbox, timers, pushes, lastEvent,
                    commandPending, probesInFlight, opElapsed, networkVars >>

\* The operator cancels the dialog: it closes and no event is sent.
UserCancel ==
    /\ PageAlive
    /\ dialog # "None"
    /\ dialog' = "None"
    /\ UNCHANGED << trackerVars, localForm, model, inbox, timers, pushes, lastEvent,
                    commandPending, probesInFlight, opElapsed, networkVars >>

\* The operator confirms the dialog: the command is sent to the core.
UserConfirm ==
    /\ dialog # "None"
    /\ Arrive(Ev("Command", dialog, "none"))
    /\ dialog' = "None"
    /\ UNCHANGED << trackerVars, localForm, model, timers, pushes, lastEvent,
                    commandPending, probesInFlight, opElapsed, networkVars >>

\* The HTTP response to the command request arrives.
CommandResponseArrives ==
    /\ commandPending # "None"
    /\ \E res \in {"ok", "error"} : Arrive(Ev("CommandResponse", commandPending, res))
    /\ commandPending' = "None"
    /\ UNCHANGED << trackerVars, localForm, model, timers, pushes, lastEvent,
                    probesInFlight, dialog, opElapsed, networkVars >>

\* The response to a reachability probe arrives (or the probe fails).
ProbeResponseArrives ==
    /\ probesInFlight > 0
    /\ \E res \in ValidationStatuses \cup {"error"} :
           Arrive(Ev("HealthcheckResponse", "None", res))
    /\ probesInFlight' = probesInFlight - 1
    /\ UNCHANGED << trackerVars, localForm, model, timers, pushes, lastEvent,
                    commandPending, dialog, opElapsed, networkVars >>

\* The operator dismisses a terminal device-operation state.
UserDismiss ==
    /\ model.deviceOperationState.type \in TerminalStates
    /\ ~Queued("Dismiss")
    /\ Arrive(Ev("Dismiss", "None", "none"))
    /\ UNCHANGED << trackerVars, localForm, model, timers, pushes, lastEvent, deviceVars, networkVars >>

\* A push on the OnlineStatus channel arrives.
ChannelPush ==
    /\ page.subscribed
    /\ pushes < MaxPushes
    /\ \E v \in {"online", "offline"} : Arrive(Ev("OnlineStatus", "None", v))
    /\ pushes' = pushes + 1
    /\ UNCHANGED << trackerVars, localForm, model, timers, lastEvent, deviceVars, networkVars >>

\* A network configuration change is committed to the core.
CommitNetworkConfig ==
    /\ model.networkChangeState.type = "idle"
    /\ networkPending = NoConfig
    /\ ~Queued("SetNetworkConfig") /\ ~Queued("SetNetworkConfigResponse")
    /\ \E cfg \in NetworkConfigs : Arrive(NetEv("SetNetworkConfig", "none", cfg))
    /\ UNCHANGED << trackerVars, localForm, model, timers, pushes, lastEvent, deviceVars, networkVars >>

\* The operator commits a network configuration change.
SubmitNetworkConfig ==
    /\ DeviceQuiet
    /\ CommitNetworkConfig

\* The operator presses "Install update": the command is sent to the core.
InstallUpdate ==
    /\ model.deviceOperationState.type = "idle"
    /\ commandPending = "None"
    /\ dialog = "None"
    /\ ~Queued("Command") /\ ~Queued("CommandResponse")
    /\ Arrive(Ev("Command", "Update", "none"))
    /\ UNCHANGED << trackerVars, localForm, model, timers, pushes, lastEvent, deviceVars, networkVars >>

\* The HTTP response to the network-config request arrives.
NetworkResponseArrives ==
    /\ networkPending # NoConfig
    /\ \E res \in {"ok", "error"} :
           Arrive(NetEv("SetNetworkConfigResponse", res, networkPending))
    /\ networkPending' = NoConfig
    /\ UNCHANGED << trackerVars, localForm, model, timers, pushes, lastEvent, deviceVars,
                    newIpProbesInFlight, redirectedTo, page >>

\* The response to a new-IP probe arrives (or the probe fails).
NewIpProbeResponseArrives ==
    /\ newIpProbesInFlight > 0
    /\ \E res \in {"ok", "error"} : Arrive(NetEv("NewIpProbeResponse", res, NoConfig))
    /\ newIpProbesInFlight' = newIpProbesInFlight - 1
    /\ UNCHANGED << trackerVars, localForm, model, timers, pushes, lastEvent, deviceVars,
                    networkPending, redirectedTo, page >>

\* The operator dismisses the new-IP timeout.
UserDismissNetwork ==
    /\ model.networkChangeState.type = "new_ip_timeout"
    /\ ~Queued("DismissNetwork")
    /\ Arrive(NetEv("DismissNetwork", "none", NoConfig))
    /\ UNCHANGED << trackerVars, localForm, model, timers, pushes, lastEvent, deviceVars, networkVars >>

----------------------------------------------------------------------------
(* Timer callbacks *)

\* setInterval callback of startReconnectionPolling
ReconnectionIntervalFires ==
    /\ timers.reconnectionIntervalId = 0
    /\ Arrive(Ev("ReconnectionCheckTick", "None", "none"))
    /\ timers' = [timers EXCEPT !.reconnectionIntervalId = RECONNECTION_POLL_INTERVAL_MS]
    /\ UNCHANGED << trackerVars, localForm, model, pushes, lastEvent, deviceVars, networkVars >>

\* setTimeout callback of startReconnectionPolling
ReconnectionTimeoutFires_StopsOnly ==
    /\ timers.reconnectionTimeoutId = 0
    /\ PageAlive
    /\ timers' = stopReconnectionPolling(timers)
    /\ UNCHANGED << trackerVars, localForm, model, inbox, pushes, lastEvent, deviceVars, networkVars >>

ReconnectionTimeoutFires ==
    /\ timers.reconnectionTimeoutId = 0
    /\ Arrive(Ev("ReconnectionTimeout", "None", "none"))
    /\ timers' = stopReconnectionPolling(timers)
    /\ UNCHANGED << trackerVars, localForm, model, pushes, lastEvent, deviceVars, networkVars >>

\* setInterval callback of startNewIpPolling
NewIpIntervalFires ==
    /\ timers.newIpIntervalId = 0
    /\ Arrive(NetEv("NewIpCheckTick", "none", NoConfig))
    /\ timers' = [timers EXCEPT !.newIpIntervalId = NEW_IP_POLL_INTERVAL_MS]
    /\ UNCHANGED << trackerVars, localForm, model, pushes, lastEvent, deviceVars, networkVars >>

\* setTimeout callback of startNewIpPolling
NewIpTimeoutFires ==
    /\ timers.newIpTimeoutId = 0
    /\ Arrive(NetEv("NewIpCheckTimeout", "none", NoConfig))
    /\ timers' = stopNewIpPolling(timers)
    /\ UNCHANGED << trackerVars, localForm, model, pushes, lastEvent, deviceVars, networkVars >>

----------------------------------------------------------------------------
(* Processing of the next event: reducer, effects, view-model watchers *)

Issued(effs, a) ==
    \E i \in 1..Len(effs) : effs[i].effect = "IssueHttpRequest" /\ effs[i].arg = a

\* The shell carries out the request for setting the password.
requestSent(pg, effs) ==
    IF Issued(effs, "set-password") /\ pg.setPassword # Unmounted
    THEN [pg EXCEPT !.setPassword.requests = @ + 1, !.setPassword.pending = TRUE]
    ELSE pg

\* The core processes event e and the shell reacts to the refreshed view
\* model; a is the state of App.vue after the assignments of the handler that
\* sent the event (app itself for an event that arrived), rest what remains queued.
Process(e, a, rest) ==
    /\ \E r \in {update(model, e)} :
       \E changed \in {refreshed(r.model, model)} :
       \E form \in {IF changed THEN runFormWatchers(localForm, r.model.networkFormState)
                     ELSE localForm} :
       LET new == r.model
           redirects == changed /\ new.networkChangeState.type = "new_ip_reachable"
       IN  /\ model' = new
           /\ inbox' = IF changed
                        THEN rest \o watchLocalFields(form, localForm, new.networkFormState)
                        ELSE rest
           /\ app' = runAppWatchers(a, app, new, model)
           /\ timers' = IF changed THEN runWatchers(timers, new, model) ELSE timers
           /\ redirectedTo' = IF redirects THEN new.networkChangeState.newIp
                              ELSE redirectedTo
           /\ page' = requestSent(
                          runPageWatchers(
                              IF redirects
                              THEN [page EXCEPT
                                       !.replaceCalls = @ + 1,
                                       !.replaceUrl = replaceUrl(page.location,
                                                          new.networkChangeState.newIp)]
                              ELSE page,
                              new, model),
                          r.effects)
           /\ commandPending' = IF \E op \in Operations : Issued(r.effects, op)
                                THEN e.operation ELSE commandPending
           /\ probesInFlight' = IF Issued(r.effects, "healthcheck")
                                   /\ probesInFlight < MaxProbes
                                THEN probesInFlight + 1 ELSE probesInFlight
           /\ networkPending' = IF Issued(r.effects, "network")
                                THEN e.config ELSE networkPending
           /\ newIpProbesInFlight' = IF Issued(r.effects, "newip")
                                        /\ newIpProbesInFlight < MaxProbes
                                     THEN newIpProbesInFlight + 1 ELSE newIpProbesInFlight
           /\ opElapsed' = IF new.deviceOperationState.type = "idle"
                              \/ model.deviceOperationState.type = "idle"
                           THEN 0 ELSE opElapsed
           /\ lastEvent' = [type |-> e.type, result |-> e.result]
           /\ localForm' = IF changed
                           THEN watchShouldShowRollbackModal(form, new, model)
                           ELSE localForm
    /\ UNCHANGED << pushes, dialog >>

Dispatch_NewestFirst ==
    /\ PageAlive
    /\ inbox # << >>
    /\ Process(inbox[Len(inbox)], app, SubSeq(inbox, 1, Len(inbox) - 1))
    /\ UNCHANGED device

Dispatch ==
    /\ PageAlive
    /\ inbox # << >>
    /\ Process(Head(inbox), app, Tail(inbox))
    /\ UNCHANGED device

\* The navigation to the new address completes: the page is gone.
PageUnloads ==
    /\ PageAlive
    /\ page.replaceCalls > 0
    /\ page' = [page EXCEPT !.unloaded = TRUE]
    /\ UNCHANGED << trackerVars, localForm, model, inbox, timers, pushes, lastEvent, deviceVars,
                    networkPending, newIpProbesInFlight, redirectedTo >>

----------------------------------------------------------------------------
(* Passage of time *)

Armed == {timers[k] : k \in TimerIds} \ {null}

Advance ==
    /\ PageAlive
    /\ inbox = << >>
    /\ Armed # {}
    /\ 0 \notin Armed
    /\ LET dt == Min(Armed)
       IN  /\ timers' = [k \in DOMAIN timers |->
                            IF k \notin TimerIds \/ timers[k] = null THEN timers[k]
                            ELSE timers[k] - dt]
           /\ opElapsed' = IF model.deviceOperationState.type \in InProgressStates
                           THEN opElapsed + dt ELSE opElapsed
    /\ UNCHANGED << trackerVars, localForm, model, inbox, pushes, lastEvent, commandPending, probesInFlight,
                    dialog, networkVars >>

----------------------------------------------------------------------------
(* Network settings form: operator and live updates *)

DnsServers == {"8.8.8.8", "1.1.1.1"}

\* The page of an adapter is opened: the form starts editing the adapter.
OpenAdapter(cur) ==
    /\ model.networkFormState.type = "not_editing"
    /\ ~Queued("NetworkFormStartEdit")
    /\ Arrive(FormEv("NetworkFormStartEdit", "none",
                      [NoData EXCEPT !.isCurrentConnection = cur]))
    /\ localForm' = [localForm EXCEPT !.isCurrentConnection = cur]
    /\ UNCHANGED << trackerVars, model, timers, pushes, lastEvent, deviceVars, networkVars >>

\* The page of an adapter the client is not connected through is opened.
StartEdit == OpenAdapter(FALSE)

\* The page of the adapter the client is connected through is opened.
StartEditConnected == OpenAdapter(TRUE)

\* A local field changes; the field watcher reports the form to the core unless
\* a submit is running.
\* The updates the form has sent were processed: an event of the operator is
\* handled by the core before the next input event of the operator.
FormSettled == ~Queued("NetworkFormUpdate") /\ ~Queued("NetworkFormReset")

FieldsChange(lf) ==
    /\ model.networkFormState.type # "not_editing"
    /\ FormSettled
    /\ ~localForm.confirmationModalOpen
    /\ localForm' = lf
    /\ IF localForm.isSubmitting
       THEN PageAlive /\ inbox' = inbox
       ELSE Arrive(FormEv("NetworkFormUpdate", lf.ipAddress, FormData(lf)))
    /\ UNCHANGED << trackerVars, model, timers, pushes, lastEvent, deviceVars, networkVars >>

\* The operator changes the IP field (read-only while DHCP is selected).
UserEdit ==
    /\ localForm.addressAssignment = "static"
    /\ \E ip \in FormIps \ {localForm.ipAddress} :
          FieldsChange([localForm EXCEPT !.ipAddress = ip])

\* The operator selects the other address assignment.
UserSelectAssignment ==
    FieldsChange([localForm EXCEPT !.addressAssignment =
                      IF @ = "dhcp" THEN "static" ELSE "dhcp"])

\* The operator changes the DNS field.
UserEditDns ==
    \E d \in DnsServers \ {localForm.dns} : FieldsChange([localForm EXCEPT !.dns = d])

\* The operator discards the edits (restoreSettings).
UserDiscard ==
    /\ model.networkFormState.type = "editing"
    /\ model.networkFormState.dirty
    /\ ~localForm.confirmationModalOpen
    /\ FormSettled
    /\ Arrive(NetEv("NetworkFormReset", "none", NoConfig))
    /\ UNCHANGED << trackerVars, model, timers, pushes, lastEvent, deviceVars, networkVars, localForm >>

\* submitNetworkConfig(includeRollback)
submitNetworkConfig(includeRollback) ==
    /\ Arrive(ConfigEv([newIp |-> localForm.ipAddress,
                        switchingToDhcp |-> ~model.networkAdapter.dhcp
                                            /\ localForm.addressAssignment = "dhcp",
                        isCurrentConnection |-> localForm.isCurrentConnection],
                       [FormData(localForm) EXCEPT !.enableRollback =
                           IF ~includeRollback THEN "null"
                           ELSE IF localForm.enableRollback THEN "true" ELSE "false"]))
    /\ localForm' = [localForm EXCEPT !.isSubmitting = TRUE,
                                      !.confirmationModalOpen = FALSE]

\* The operator presses "Apply Changes" of the form (submit): the confirmation
\* modal opens when the rollback modal is required, else the form is sent.
UserSubmit_SkipsModal ==
    /\ model.networkFormState.type = "editing"
    /\ model.networkFormState.dirty
    /\ ~localForm.isSubmitting
    /\ ~localForm.confirmationModalOpen
    /\ NetworkQuiet
    /\ FormSettled
    /\ submitNetworkConfig(FALSE)
    /\ UNCHANGED << trackerVars, model, timers, pushes, lastEvent, deviceVars, networkVars >>

UserSubmit ==
    /\ model.networkFormState.type = "editing"
    /\ model.networkFormState.dirty
    /\ ~localForm.isSubmitting
    /\ ~localForm.confirmationModalOpen
    /\ NetworkQuiet
    /\ FormSettled
    /\ IF shouldShowRollbackModal(model)
       THEN /\ PageAlive
            /\ localForm' = [localForm EXCEPT !.confirmationModalOpen = TRUE]
            /\ inbox' = inbox
       ELSE submitNetworkConfig(FALSE)
    /\ UNCHANGED << trackerVars, model, timers, pushes, lastEvent, deviceVars, networkVars >>

\* The operator ticks or unticks the rollback checkbox of the modal.
UserToggleRollback ==
    /\ PageAlive
    /\ localForm.confirmationModalOpen
    /\ localForm' = [localForm EXCEPT !.enableRollback = ~@]
    /\ UNCHANGED << trackerVars, model, inbox, timers, pushes, lastEvent, deviceVars, networkVars >>

\* The operator cancels the modal (cancelRollbackModal).
UserCancelRollbackModal ==
    /\ PageAlive
    /\ localForm.confirmationModalOpen
    /\ localForm' = [localForm EXCEPT !.confirmationModalOpen = FALSE]
    /\ UNCHANGED << trackerVars, model, inbox, timers, pushes, lastEvent, deviceVars, networkVars >>

\* The operator presses "Apply Changes" of the modal.
UserApplyChanges ==
    /\ localForm.confirmationModalOpen
    /\ submitNetworkConfig(TRUE)
    /\ UNCHANGED << trackerVars, model, timers, pushes, lastEvent, deviceVars, networkVars >>

\* A NetworkStatusV1 push with the adapter's current address arrives.
NetworkStatusPush ==
    /\ \E ip \in AdapterIps : Arrive(FormEv("NetworkStatus", ip, NoData))
    /\ UNCHANGED << trackerVars, model, timers, pushes, lastEvent, deviceVars, networkVars, localForm >>

\* A NetworkStatusV1 push reports the adapter's address assignment.
AdapterStatusPush ==
    /\ pushes < MaxPushes
    /\ \E d \in BOOLEAN :
          Arrive(FormEv("NetworkStatus", model.networkStatus, [NoData EXCEPT !.dhcp = d]))
    /\ pushes' = pushes + 1
    /\ UNCHANGED << trackerVars, model, timers, lastEvent, deviceVars, networkVars, localForm >>

----------------------------------------------------------------------------
(* Specifications *)

Next ==
    \/ \E op \in Operations : OpenDialog(op)
    \/ UserCancel
    \/ UserConfirm
    \/ CommandResponseArrives
    \/ ProbeResponseArrives
    \/ UserDismiss
    \/ ChannelPush
    \/ ReconnectionIntervalFires
    \/ ReconnectionTimeoutFires
    \/ SubmitNetworkConfig
    \/ NetworkResponseArrives
    \/ NewIpProbeResponseArrives
    \/ UserDismissNetwork
    \/ NewIpIntervalFires
    \/ NewIpTimeoutFires
    \/ Dispatch
    \/ PageUnloads
    \/ Advance

Spec == Init /\ [][Next]_vars

\* The network settings form under live updates.
\* The update is installed while the network change waits for the new address.
InstallUpdateDuringNetworkChange ==
    /\ model.networkChangeState.type = "waiting_for_new_ip"
    /\ InstallUpdate

\* A firmware update and a network change run at the same time.
NextBoth ==
    \/ InstallUpdateDuringNetworkChange
    \/ CommandResponseArrives
    \/ ProbeResponseArrives
    \/ UserDismiss
    \/ ReconnectionIntervalFires
    \/ ReconnectionTimeoutFires
    \/ SubmitNetworkConfig
    \/ NetworkResponseArrives
    \/ NewIpProbeResponseArrives
    \/ UserDismissNetwork
    \/ NewIpIntervalFires
    \/ NewIpTimeoutFires
    \/ Dispatch
    \/ PageUnloads
    \/ Advance

SpecBoth == Init /\ [][NextBoth]_vars

\* The form of the adapter the client is connected through, up to the commit.
NextRollback ==
    \/ StartEditConnected
    \/ AdapterStatusPush
    \/ UserEdit
    \/ UserSelectAssignment
    \/ UserEditDns
    \/ UserDiscard
    \/ UserSubmit
    \/ UserCancelRollbackModal
    \/ UserApplyChanges
    \/ NetworkResponseArrives
    \/ Dispatch

SpecRollback == Init /\ [][NextRollback]_vars

\* The same, with the operator also using the checkbox of the modal.
NextConfirm ==
    \/ NextRollback
    \/ UserToggleRollback

SpecConfirm == Init /\ [][NextConfirm]_vars

----------------------------------------------------------------------------
(* Notifications of App.vue: device, mount-time fetch, acknowledgements *)

MaxCycles == 2
MaxReplays == 2

\* What the session can find on the device when it starts: an update result, a
\* network rollback and a factory-reset result, each acknowledged earlier or not.
InitialDevices ==
    {d \in {[QuietDevice EXCEPT !.updateValidationStatus = st,
                                !.updateValidationAcked = ua,
                                !.networkRollbackOccurred = ro,
                                !.factoryResetResult = fr,
                                !.factoryResetResultAcked = fa] :
               st \in ValidationStatuses, ua \in BOOLEAN, ro \in BOOLEAN,
               fr \in {"unknown", "modeSupported"}, fa \in BOOLEAN} :
        /\ d.updateValidationStatus = "NoUpdate" => d.updateValidationAcked
        /\ d.factoryResetResult = "unknown" => d.factoryResetResultAcked}

InitAck == InitPage /\ device \in InitialDevices

\* The acknowledgement fields of the healthcheck payload the device returns.
Health(d) == [updateValidationAcked |-> d.updateValidationAcked,
              networkRollbackOccurred |-> d.networkRollbackOccurred,
              factoryResetResultAcked |-> d.factoryResetResultAcked]

\* One of the three persistent dialogs is open; it covers the page.
ModalOpen ==
    \/ app.showRollbackNotification
    \/ app.showFactoryResetResultModal
    \/ app.showUpdateValidationModal

\* onMounted: the response to the plain healthcheck fetch arrives and the rest
\* of the hook runs.
MountFetchReturns ==
    /\ PageAlive
    /\ app.mountFetch = "pending"
    /\ LET a1 == [app EXCEPT
                     !.mountFetch = "done",
                     !.showRollbackNotification = @ \/ device.networkRollbackOccurred,
                     !.factoryResetAckedOnMount = device.factoryResetResultAcked,
                     !.updateValidationAckedOnMount = device.updateValidationAcked]
           a2 == IF ~a1.factoryResetAckedOnMount /\ model.factoryResetResult # "unknown"
                 THEN [a1 EXCEPT !.showFactoryResetResultModal = TRUE]
                 ELSE a1
       IN  app' = watchUpdateValidation(a2, app, model, model)
    /\ UNCHANGED << model, inbox, timers, pushes, lastEvent, deviceVars, networkVars,
                    localForm, device >>

\* The UpdateValidationStatus channel delivers a publication: the current
\* status of the device, or on a replay of the history the older "NoUpdate".
UpdateValidationPush ==
    /\ page.subscribed
    /\ device.replays < MaxReplays
    /\ device.offline = "no"
    /\ \E st \in {"NoUpdate", device.updateValidationStatus} :
          Arrive(Ev("UpdateValidationStatus", "None", st))
    /\ device' = [device EXCEPT !.replays = @ + 1]
    /\ UNCHANGED << model, timers, pushes, lastEvent, deviceVars, networkVars,
                    localForm, app >>

\* The FactoryReset channel delivers the result of the last factory reset.
FactoryResetPush ==
    /\ device.replays < MaxReplays
    /\ device.offline = "no"
    /\ device.factoryResetResult # "unknown"
    /\ Arrive(Ev("FactoryResetResult", "None", device.factoryResetResult))
    /\ device' = [device EXCEPT !.replays = @ + 1]
    /\ UNCHANGED << model, timers, pushes, lastEvent, deviceVars, networkVars,
                    localForm, app >>

\* The operator starts a reboot or an update from the page.
StartOperation ==
    /\ ~ModalOpen
    /\ model.deviceOperationState.type = "idle"
    /\ commandPending = "None"
    /\ ~Queued("Command") /\ ~Queued("CommandResponse")
    /\ \E op \in {"Reboot", "Update"} :
          /\ op = "Update" => device.cycles < MaxCycles
          /\ Arrive(Ev("Command", op, "none"))
    /\ UNCHANGED << model, timers, pushes, lastEvent, deviceVars, networkVars,
                    localForm, trackerVars >>

\* The device accepts the command and goes down.
DeviceAcceptsCommand ==
    /\ commandPending # "None"
    /\ Arrive(Ev("CommandResponse", commandPending, "ok"))
    /\ commandPending' = "None"
    /\ device' = [device EXCEPT !.offline =
                     CASE commandPending = "Update" -> "update"
                       [] commandPending = "FactoryReset" -> "factory_reset"
                       [] OTHER -> "reboot"]
    /\ UNCHANGED << model, timers, pushes, lastEvent, probesInFlight, dialog, opElapsed,
                    networkVars, localForm, app >>

\* The device is back; after an update or a factory reset it has a new,
\* unacknowledged result.
DeviceComesBack ==
    /\ \/ /\ device.offline = "update"
          /\ \E st \in {"Succeeded", "Recovered"} :
                device' = [device EXCEPT !.offline = "no", !.updateValidationStatus = st,
                                         !.updateValidationAcked = FALSE, !.cycles = @ + 1]
       \/ /\ device.offline = "factory_reset"
          /\ \E fr \in {"modeSupported", "modeUnsupported"} :
                device' = [device EXCEPT !.offline = "no", !.factoryResetResult = fr,
                                         !.factoryResetResultAcked = FALSE,
                                         !.cycles = @ + 1]
       \/ /\ device.offline = "reboot"
          /\ device' = [device EXCEPT !.offline = "no"]
    /\ UNCHANGED << model, inbox, timers, pushes, lastEvent, deviceVars, networkVars,
                    localForm, app >>

\* setInterval callback of startReconnectionPolling, whenever the interval is armed.
ReconnectionIntervalElapses ==
    /\ timers.reconnectionIntervalId # null
    /\ ~Queued("ReconnectionCheckTick")
    /\ Arrive(Ev("ReconnectionCheckTick", "None", "none"))
    /\ UNCHANGED << model, timers, pushes, lastEvent, deviceVars, networkVars,
                    localForm, trackerVars >>

\* What a reachability probe can find: the status of the device, nothing while
\* the device is down, and no result yet while it validates the update.
ProbeResults(d) ==
    CASE d.offline \in {"no", "nosession"} -> {d.updateValidationStatus}
      [] d.offline = "update" -> {"error", "NoUpdate"}
      [] OTHER -> {"error"}

\* The response of the device to a reachability probe arrives.
DeviceProbeResponseArrives ==
    /\ probesInFlight > 0
    /\ \E res \in ProbeResults(device) : Arrive(HealthEv(res, Health(device)))
    /\ probesInFlight' = probesInFlight - 1
    /\ UNCHANGED << model, timers, pushes, lastEvent, commandPending, dialog, opElapsed,
                    networkVars, localForm, trackerVars >>

\* The operator presses OK: every event that has arrived has been processed.
CanAcknowledge == PageAlive /\ inbox = << >>

\* The backend on a request to ack-rollback: the rollback flag of the device
\* is cleared, so the healthchecks that follow no longer report it.
AckRollbackReceived(d, effs) ==
    IF Issued(effs, "ack-rollback")
    THEN [d EXCEPT !.networkRollbackOccurred = FALSE]
    ELSE d

AcknowledgeRollback_HidesOnly ==
    /\ CanAcknowledge
    /\ app.showRollbackNotification
    /\ app' = [app EXCEPT !.showRollbackNotification = FALSE]
    /\ UNCHANGED << model, inbox, timers, pushes, lastEvent, deviceVars, networkVars,
                    localForm, device >>

\* acknowledgeRollback
AcknowledgeRollback ==
    /\ CanAcknowledge
    /\ app.showRollbackNotification
    /\ Process(Ev("AckRollback", "None", "none"),
               [app EXCEPT !.showRollbackNotification = FALSE],
               inbox)
    /\ device' = AckRollbackReceived(device, update(model, Ev("AckRollback", "None", "none")).effects)

AcknowledgeFactoryResetResult_RecordsLater ==
    /\ CanAcknowledge
    /\ app.showFactoryResetResultModal
    /\ Process(Ev("AckFactoryResetResult", "None", "none"),
               [app EXCEPT !.showFactoryResetResultModal = FALSE],
               inbox)
    /\ device' = [device EXCEPT !.factoryResetResultAcked = TRUE]

\* acknowledgeFactoryResetResult
AcknowledgeFactoryResetResult ==
    /\ CanAcknowledge
    /\ app.showFactoryResetResultModal
    /\ Process(Ev("AckFactoryResetResult", "None", "none"),
               [app EXCEPT !.showFactoryResetResultModal = FALSE,
                           !.factoryResetAckedOnMount = TRUE],
               inbox)
    /\ device' = [device EXCEPT !.factoryResetResultAcked = TRUE]

acknowledgeUpdateValidation_KeepsFlag ==
    /\ CanAcknowledge
    /\ app.showUpdateValidationModal
    /\ Process(Ev("AckUpdateValidation", "None", "none"),
               [app EXCEPT !.showUpdateValidationModal = FALSE,
                           !.updateValidationAcknowledged = TRUE],
               inbox)
    /\ device' = [device EXCEPT !.updateValidationAcked = TRUE]

\* acknowledgeUpdateValidation
acknowledgeUpdateValidation ==
    /\ CanAcknowledge
    /\ app.showUpdateValidationModal
    /\ Process(Ev("AckUpdateValidation", "None", "none"),
               [app EXCEPT !.showUpdateValidationModal = FALSE,
                           !.updateValidationAckedOnMount = TRUE,
                           !.updateValidationAcknowledged = TRUE],
               inbox)
    /\ device' = [device EXCEPT !.updateValidationAcked = TRUE]

NextAck ==
    \/ MountFetchReturns
    \/ UpdateValidationPush
    \/ FactoryResetPush
    \/ StartOperation
    \/ DeviceAcceptsCommand
    \/ DeviceComesBack
    \/ ReconnectionIntervalElapses
    \/ DeviceProbeResponseArrives
    \/ UserDismiss
    \/ AcknowledgeRollback
    \/ AcknowledgeFactoryResetResult
    \/ acknowledgeUpdateValidation
    \/ Dispatch

SpecAck == InitAck /\ [][NextAck]_vars

MaxReloads == 1

\* The operator reloads the page: the core, the refs of the components and the
\* timers start afresh and onMounted fetches the healthcheck again. Responses
\* still on the way are lost; a command already sent still reaches the device.
PageReload ==
    /\ page.reloads < MaxReloads
    /\ model' = InitModel
    /\ app' = InitApp
    /\ localForm' = InitLocalForm
    /\ inbox' = << >>
    /\ timers' = NoTimers
    /\ commandPending' = "None"
    /\ probesInFlight' = 0
    /\ dialog' = "None"
    /\ opElapsed' = 0
    /\ lastEvent' = [type |-> "None", result |-> "none"]
    /\ networkPending' = NoConfig
    /\ newIpProbesInFlight' = 0
    /\ redirectedTo' = "none"
    /\ page' = [LoadedPage EXCEPT !.reloads = page.reloads + 1]
    /\ device' = CASE commandPending = "Update" -> [device EXCEPT !.offline = "update"]
                   [] commandPending = "Reboot" -> [device EXCEPT !.offline = "reboot"]
                   [] OTHER -> device
    /\ UNCHANGED pushes

NextReload ==
    \/ MountFetchReturns
    \/ UpdateValidationPush
    \/ StartOperation
    \/ DeviceAcceptsCommand
    \/ DeviceComesBack
    \/ ReconnectionIntervalElapses
    \/ DeviceProbeResponseArrives
    \/ UserDismiss
    \/ AcknowledgeRollback
    \/ acknowledgeUpdateValidation
    \/ PageReload
    \/ Dispatch

\* The session finds a device that has rolled back its network settings.
InitReload ==
    /\ InitPage
    /\ device = [QuietDevice EXCEPT !.networkRollbackOccurred = TRUE]

SpecReload == InitReload /\ [][NextReload]_vars

\* The backend restores the previous network settings after a change that was
\* not confirmed; from then on its healthcheck reports the rollback.
NetworkRollbackOccurs ==
    /\ device.offline = "no"
    /\ ~device.networkRollbackOccurred
    /\ device.cycles < MaxCycles
    /\ device' = [device EXCEPT !.networkRollbackOccurred = TRUE, !.cycles = @ + 1]
    /\ UNCHANGED << model, inbox, timers, pushes, lastEvent, deviceVars, networkVars,
                    localForm, app >>

NextReport ==
    \/ MountFetchReturns
    \/ StartOperation
    \/ DeviceAcceptsCommand
    \/ DeviceComesBack
    \/ ReconnectionIntervalElapses
    \/ DeviceProbeResponseArrives
    \/ UserDismiss
    \/ AcknowledgeRollback
    \/ NetworkRollbackOccurs
    \/ PageReload
    \/ Dispatch

\* The response to the fetch of onMounted arrives, and an event that has
\* arrived is processed.
SpecReport ==
    /\ InitReload
    /\ [][NextReport]_vars
    /\ WF_vars(MountFetchReturns)
    /\ WF_vars(Dispatch)

\* The operator starts a factory reset from the page.
StartFactoryReset ==
    /\ ~ModalOpen
    /\ model.deviceOperationState.type = "idle"
    /\ commandPending = "None"
    /\ ~Queued("Command") /\ ~Queued("CommandResponse")
    /\ device.cycles < MaxCycles
    /\ Arrive(Ev("Command", "FactoryReset", "none"))
    /\ UNCHANGED << model, timers, pushes, lastEvent, deviceVars, networkVars,
                    localForm, trackerVars >>

\* The session finds a device whose last factory reset has a result that was
\* not acknowledged yet.
InitFactoryReset ==
    /\ InitPage
    /\ device = [QuietDevice EXCEPT !.factoryResetResult = "modeSupported",
                                     !.factoryResetResultAcked = FALSE]

NextFactoryReset ==
    \/ MountFetchReturns
    \/ FactoryResetPush
    \/ StartFactoryReset
    \/ DeviceAcceptsCommand
    \/ DeviceComesBack
    \/ ReconnectionIntervalElapses
    \/ DeviceProbeResponseArrives
    \/ UserDismiss
    \/ AcknowledgeFactoryResetResult
    \/ Dispatch

SpecFactoryReset == InitFactoryReset /\ [][NextFactoryReset]_vars

MaxRepeats == 2

\* The operator presses OK a second time before the dialog has gone: the
\* acknowledge function runs again, right after its first call. The backend
\* counts the requests that acknowledge what was acknowledged already.
AcknowledgeRollbackAgain ==
    /\ CanAcknowledge
    /\ lastEvent.type = "AckRollback"
    /\ device.repeatedAcks < MaxRepeats
    /\ Process(Ev("AckRollback", "None", "none"),
               [app EXCEPT !.showRollbackNotification = FALSE],
               inbox)
    /\ device' = [AckRollbackReceived(device,
                      update(model, Ev("AckRollback", "None", "none")).effects)
                  EXCEPT !.repeatedAcks = @ + 1]

AcknowledgeFactoryResetResultAgain_Toggles ==
    /\ CanAcknowledge
    /\ lastEvent.type = "AckFactoryResetResult"
    /\ device.repeatedAcks < MaxRepeats
    /\ Process(Ev("AckFactoryResetResult", "None", "none"),
               [app EXCEPT !.showFactoryResetResultModal = ~@,
                           !.factoryResetAckedOnMount = TRUE],
               inbox)
    /\ device' = [device EXCEPT !.factoryResetResultAcked = TRUE,
                                !.repeatedAcks = @ + 1]

AcknowledgeFactoryResetResultAgain ==
    /\ CanAcknowledge
    /\ lastEvent.type = "AckFactoryResetResult"
    /\ device.repeatedAcks < MaxRepeats
    /\ Process(Ev("AckFactoryResetResult", "None", "none"),
               [app EXCEPT !.showFactoryResetResultModal = FALSE,
                           !.factoryResetAckedOnMount = TRUE],
               inbox)
    /\ device' = [device EXCEPT !.factoryResetResultAcked = TRUE,
                                !.repeatedAcks = @ + 1]

acknowledgeUpdateValidationAgain ==
    /\ CanAcknowledge
    /\ lastEvent.type = "AckUpdateValidation"
    /\ device.repeatedAcks < MaxRepeats
    /\ Process(Ev("AckUpdateValidation", "None", "none"),
               [app EXCEPT !.showUpdateValidationModal = FALSE,
                           !.updateValidationAckedOnMount = TRUE,
                           !.updateValidationAcknowledged = TRUE],
               inbox)
    /\ device' = [device EXCEPT !.updateValidationAcked = TRUE,
                                !.repeatedAcks = @ + 1]

\* The session finds a device with all three results waiting for their
\* acknowledgement.
InitTwice ==
    /\ InitPage
    /\ device \in {d \in InitialDevices : /\ d.updateValidationStatus = "Recovered"
                                          /\ ~d.updateValidationAcked
                                          /\ d.networkRollbackOccurred
                                          /\ d.factoryResetResult # "unknown"
                                          /\ ~d.factoryResetResultAcked}

NextTwice ==
    \/ MountFetchReturns
    \/ UpdateValidationPush
    \/ FactoryResetPush
    \/ StartOperation
    \/ DeviceAcceptsCommand
    \/ DeviceComesBack
    \/ ReconnectionIntervalElapses
    \/ DeviceProbeResponseArrives
    \/ UserDismiss
    \/ AcknowledgeRollback
    \/ AcknowledgeFactoryResetResult
    \/ acknowledgeUpdateValidation
    \/ Dispatch
    \/ AcknowledgeRollbackAgain
    \/ AcknowledgeFactoryResetResultAgain
    \/ acknowledgeUpdateValidationAgain

SpecTwice == InitTwice /\ [][NextTwice]_vars

\* A NetworkStatusV1 push with the adapter's current address, address
\* assignment and DNS server arrives.
NetworkStatusV1Push ==
    /\ \E ip \in AdapterIps, d \in BOOLEAN, server \in DnsServers :
          Arrive(FormEv("NetworkStatus", ip, [NoData EXCEPT !.dhcp = d, !.dns = server]))
    /\ UNCHANGED << trackerVars, model, timers, pushes, lastEvent, deviceVars, networkVars,
                    localForm >>

NextDiscard ==
    \/ StartEdit
    \/ UserEdit
    \/ UserSelectAssignment
    \/ UserEditDns
    \/ UserDiscard
    \/ NetworkStatusV1Push
    \/ Dispatch

SpecDiscard == Init /\ [][NextDiscard]_vars

\* The session of the operator ends while the page is open.

MaxPosts == 2

\* The request of a device command is answered with 401.
CommandUnauthorized ==
    /\ commandPending # "None"
    /\ Arrive(Ev("CommandResponse", commandPending, "unauthorized"))
    /\ commandPending' = "None"
    /\ UNCHANGED << trackerVars, localForm, model, timers, pushes, lastEvent,
                    probesInFlight, dialog, opElapsed, networkVars >>

\* The update files the operator can pick (all of them tar archives).
Files == {"test.swu", "second-update.swu"}

\* The operator picks a file in the upload field, which is disabled while an
\* upload is running.
SelectFile ==
    /\ PageAlive
    /\ requiresAuth(page.route)
    /\ ~page.uploadFetching
    /\ page.posts < MaxPosts
    /\ \E f \in Files : f # page.updateFile /\ page' = [page EXCEPT !.updateFile = f]
    /\ UNCHANGED << trackerVars, localForm, model, inbox, timers, pushes, lastEvent, deviceVars,
                    networkPending, newIpProbesInFlight, redirectedTo >>

\* uploadFile of UpdateFileUpload.vue up to the request: an operator without a
\* session is sent to the login page, without a selected file an error is
\* shown, otherwise the file is posted.
uploadFile ==
    /\ PageAlive
    /\ requiresAuth(page.route)
    /\ ~page.uploadFetching
    /\ page.posts < MaxPosts
    /\ page' = IF ~model.isAuthenticated
               THEN [page EXCEPT !.route = "/login"]
               ELSE IF page.updateFile = "undefined"
               THEN [page EXCEPT !.uploadError = "Select an update file."]
               ELSE [page EXCEPT !.uploadFetching = TRUE, !.uploadStatus = 0,
                                 !.formData = page.updateFile,
                                 !.posts = @ + 1]
    /\ UNCHANGED << trackerVars, localForm, model, inbox, timers, pushes, lastEvent, deviceVars,
                    networkPending, newIpProbesInFlight, redirectedTo >>

UploadStatuses == {200, 401, 500}

\* uploadFile from the response on: success reports the name of
\* updateFile.value as it is then (reading the name of an undefined value
\* throws, and the catch block shows the error), 401 navigates to the login
\* page, any other failure is shown as an error; the upload is over in every case.
UploadResponds ==
    /\ PageAlive
    /\ page.uploadFetching
    /\ \E status \in UploadStatuses :
           page' = [page EXCEPT
                       !.uploadFetching = FALSE, !.uploadStatus = status,
                       !.formData = "undefined",
                       !.fileUploaded = IF status = 200 /\ page.updateFile # "undefined"
                                        THEN page.updateFile ELSE @,
                       !.uploadError = IF status = 200
                                       THEN IF page.updateFile = "undefined"
                                            THEN "Uploading file failed: TypeError" ELSE @
                                       ELSE IF status = 401 THEN @
                                       ELSE "Uploading file failed",
                       !.route = IF status = 401 THEN "/login" ELSE @]
    /\ UNCHANGED << trackerVars, localForm, model, inbox, timers, pushes, lastEvent, deviceVars,
                    networkPending, newIpProbesInFlight, redirectedTo >>

\* The operator logs in on the login page and the response arrives.
UserLogin ==
    /\ page.route = "/login"
    /\ ~page.uploadFetching
    /\ ~Queued("LoginResponse")
    /\ \E res \in {"ok", "error"} : Arrive(Ev("LoginResponse", "None", res))
    /\ UNCHANGED << trackerVars, localForm, model, timers, pushes, lastEvent, deviceVars, networkVars >>

NextAuth ==
    \/ \E op \in Operations : OpenDialog(op)
    \/ UserCancel
    \/ UserConfirm
    \/ CommandUnauthorized
    \/ SelectFile
    \/ uploadFile
    \/ UploadResponds
    \/ UserLogin
    \/ ChannelPush
    \/ Dispatch

SpecAuth == Init /\ [][NextAuth]_vars

\* The password is set on the set-password page.

MaxSubmits == 3

Passwords == {"password1", "password2"}

pageOnlyVars == << trackerVars, localForm, model, inbox, timers, pushes, lastEvent, deviceVars,
                  networkPending, newIpProbesInFlight, redirectedTo >>

\* The operator fills in the two password fields.
TypePasswords ==
    /\ PageAlive
    /\ page.route = "/set-password"
    /\ ~page.setPassword.waiting
    /\ \E p \in Passwords, r \in Passwords :
           /\ << p, r >> # << page.setPassword.password, page.setPassword.repeatPassword >>
           /\ page' = [page EXCEPT !.setPassword.password = p,
                                    !.setPassword.repeatPassword = r]
    /\ UNCHANGED pageOnlyVars

handleSubmit_SendsMismatch ==
    /\ page.route = "/set-password"
    /\ ~page.setPassword.waiting
    /\ page.setPassword.submits < MaxSubmits
    /\ Arrive(Ev("SetPassword", "None", "none"))
    /\ page' = [page EXCEPT !.setPassword.errorMsg =
                                 IF page.setPassword.password # page.setPassword.repeatPassword
                                 THEN "Passwords do not match." ELSE "",
                             !.setPassword.submits = @ + 1,
                             !.setPassword.waiting = TRUE]
    /\ UNCHANGED << trackerVars, localForm, model, timers, pushes, lastEvent, deviceVars,
                    networkPending, newIpProbesInFlight, redirectedTo >>

\* handleSubmit of SetPassword.vue up to the call of the core: two different
\* passwords are reported in the form and nothing is sent.
handleSubmit ==
    /\ page.route = "/set-password"
    /\ ~page.setPassword.waiting
    /\ page.setPassword.submits < MaxSubmits
    /\ IF page.setPassword.password # page.setPassword.repeatPassword
       THEN /\ PageAlive
            /\ page' = [page EXCEPT !.setPassword.errorMsg = "Passwords do not match.",
                                     !.setPassword.submits = @ + 1]
            /\ UNCHANGED inbox
       ELSE /\ Arrive(Ev("SetPassword", "None", "none"))
            /\ page' = [page EXCEPT !.setPassword.errorMsg = "",
                                     !.setPassword.submits = @ + 1,
                                     !.setPassword.waiting = TRUE]
    /\ UNCHANGED << trackerVars, localForm, model, timers, pushes, lastEvent, deviceVars,
                    networkPending, newIpProbesInFlight, redirectedTo >>

\* The response to the set-password request arrives.
SetPasswordResponds ==
    /\ page.setPassword.pending
    /\ \E res \in {"ok", "error"} : Arrive(Ev("SetPasswordResponse", "None", res))
    /\ page' = [page EXCEPT !.setPassword.pending = FALSE]
    /\ UNCHANGED << trackerVars, localForm, model, timers, pushes, lastEvent, deviceVars,
                    networkPending, newIpProbesInFlight, redirectedTo >>

\* handleSubmit after its wait of 100 ms: it reads the messages of the view
\* model, whether or not the response has been processed by then.
handleSubmitResumes ==
    /\ PageAlive
    /\ page.setPassword.waiting
    /\ page' = IF model.errorMessage # "none"
               THEN [page EXCEPT !.setPassword.errorMsg = model.errorMessage,
                                 !.setPassword.waiting = FALSE]
               ELSE IF model.successMessage # "none"
               THEN [page EXCEPT !.setPassword.waiting = FALSE,
                                 !.subscribed = TRUE, !.route = "/"]
               ELSE [page EXCEPT !.setPassword.waiting = FALSE]
    /\ UNCHANGED pageOnlyVars

InitPassword ==
    /\ model = [InitModel EXCEPT !.isAuthenticated = FALSE]
    /\ app = InitApp
    /\ localForm = InitLocalForm
    /\ inbox = << >>
    /\ timers = NoTimers
    /\ commandPending = "None"
    /\ probesInFlight = 0
    /\ dialog = "None"
    /\ opElapsed = 0
    /\ pushes = 0
    /\ lastEvent = [type |-> "None", result |-> "none"]
    /\ networkPending = NoConfig
    /\ newIpProbesInFlight = 0
    /\ redirectedTo = "none"
    /\ page = [LoadedPage EXCEPT !.route = "/set-password", !.subscribed = FALSE,
                                 !.setPassword = NoPasswordForm]
    /\ device = QuietDevice

NextPassword ==
    \/ TypePasswords
    \/ handleSubmit
    \/ SetPasswordResponds
    \/ handleSubmitResumes
    \/ Dispatch

SpecPassword == InitPassword /\ [][NextPassword]_vars

\* An update ends the session: the operator has to log in again.

\* The operator installs an update from a protected page, in a session the
\* backend knows: without one the backend answers the command with 401.
StartUpdate ==
    /\ ~ModalOpen
    /\ requiresAuth(page.route)
    /\ model.isAuthenticated
    /\ device.offline = "no"
    /\ model.deviceOperationState.type = "idle"
    /\ commandPending = "None"
    /\ ~Queued("Command") /\ ~Queued("CommandResponse")
    /\ device.cycles < MaxCycles
    /\ Arrive(Ev("Command", "Update", "none"))
    /\ UNCHANGED << model, timers, pushes, lastEvent, deviceVars, networkVars,
                    localForm, trackerVars >>

\* The device is back after the update with a new, unacknowledged result; the
\* restarted backend no longer knows the session of the page, so it answers
\* the healthcheck, which needs no session, and delivers nothing on the channels.
DeviceRestartsWithoutSession ==
    /\ device.offline = "update"
    /\ \E st \in {"Succeeded", "Recovered"} :
          device' = [device EXCEPT !.offline = "nosession", !.updateValidationStatus = st,
                                   !.updateValidationAcked = FALSE, !.cycles = @ + 1]
    /\ UNCHANGED << model, inbox, timers, pushes, lastEvent, deviceVars, networkVars,
                    localForm, app >>

\* The core learns that the session is gone once the reconnection is over.
SessionLost ==
    /\ device.offline = "nosession"
    /\ model.isAuthenticated
    /\ model.deviceOperationState.type \notin InProgressStates \cup {"idle"}
    /\ ~Queued("Unauthorized")
    /\ Arrive(Ev("Unauthorized", "None", "none"))
    /\ UNCHANGED << model, timers, pushes, lastEvent, deviceVars, networkVars,
                    localForm, trackerVars >>

\* The operator logs in on the login page: the backend has a session again.
UserLogsIn ==
    /\ page.route = "/login"
    /\ ~model.isAuthenticated
    /\ device.offline = "nosession"
    /\ ~Queued("LoginResponse")
    /\ Arrive(Ev("LoginResponse", "None", "ok"))
    /\ device' = [device EXCEPT !.offline = "no"]
    /\ UNCHANGED << model, timers, pushes, lastEvent, deviceVars, networkVars,
                    localForm, app >>

NextRelogin ==
    \/ MountFetchReturns
    \/ UpdateValidationPush
    \/ StartUpdate
    \/ DeviceAcceptsCommand
    \/ DeviceRestartsWithoutSession
    \/ ReconnectionIntervalElapses
    \/ DeviceProbeResponseArrives
    \/ UserDismiss
    \/ SessionLost
    \/ UserLogsIn
    \/ acknowledgeUpdateValidation
    \/ Dispatch

SpecRelogin == Init /\ [][NextRelogin]_vars

NextForm ==
    \/ StartEdit
    \/ UserEdit
    \/ UserDiscard
    \/ UserSubmit
    \/ NetworkResponseArrives
    \/ NetworkStatusPush
    \/ Dispatch

SpecForm == Init /\ [][NextForm]_vars

----------------------------------------------------------------------------
(* Properties *)

dos == model.deviceOperationState

ncs == model.networkChangeState

\* A step in which the reducer processes the event at the head of the inbox.
\* A step that processes the head of the queue; the field watcher of the form
\* may have queued an update behind what remained.
IsDispatch ==
    /\ inbox # << >>
    /\ \/ inbox' = Tail(inbox)
       \/ /\ model' # model
          /\ localForm' # localForm
          /\ Len(inbox') = Len(inbox)
          /\ SubSeq(inbox', 1, Len(inbox) - 1) = Tail(inbox)
          /\ inbox'[Len(inbox')].type = "NetworkFormUpdate"

Processing(t) == IsDispatch /\ Head(inbox).type = t

ReconnectionTimersCancelled(tm) ==
    tm.reconnectionIntervalId = null /\ tm.reconnectionTimeoutId = null

Deadline(op) == IF op = "FactoryReset" THEN FACTORY_RESET_TIMEOUT_MS ELSE REBOOT_TIMEOUT_MS

\* C1: whenever the device operation state is outside the in-progress states
\* (Idle, ReconnectionSuccessful, ReconnectionFailed), neither the reconnection
\* poll interval nor the reconnection timeout is armed; every exit from the
\* in-progress states cancels both in the same transition.
C1_NoTimerOutsideOperation ==
    /\ [](dos.type \notin InProgressStates => ReconnectionTimersCancelled(timers))
    /\ [][dos.type \in InProgressStates /\ dos'.type \notin InProgressStates
            => ReconnectionTimersCancelled(timers')]_vars

C1_Witness ==
    /\ dos.type = "reconnection_successful"
    /\ opElapsed > 0
    /\ ReconnectionTimersCancelled(timers)

fs == model.networkFormState

\* C2: while the form is dirty, processing a live NetworkStatusV1 update leaves
\* the form's field value and the core's form data as they are, whatever
\* edits are still on their way to the core.
C2_DirtyFormKeepsEdits ==
    [][(Processing("NetworkStatus") /\ fs.dirty)
          => /\ localForm'.ipAddress = localForm.ipAddress
             /\ fs'.ipAddress = fs.ipAddress
             /\ fs'.dirty]_vars

C2_Witness ==
    /\ lastEvent = [type |-> "NetworkStatus", result |-> "192.168.100.50"]
    /\ fs.type = "editing" /\ fs.dirty
    /\ localForm.ipAddress = "192.168.1.99"
    /\ model.networkStatus = "192.168.100.50"

\* C3: a failed reachability probe changes neither the device operation state
\* nor the reconnection timers, and ReconnectionFailed is entered only by
\* processing the ReconnectionTimeout event.
C3_FailedProbeIgnored ==
    [][/\ (Processing("HealthcheckResponse") /\ Head(inbox).result = "error")
            => (dos' = dos /\ timers' = timers)
       /\ (dos'.type = "reconnection_failed" /\ dos.type # "reconnection_failed")
            => Processing("ReconnectionTimeout")]_vars

C3_Witness ==
    /\ lastEvent = [type |-> "HealthcheckResponse", result |-> "error"]
    /\ dos.type = "waiting_reconnection"
    /\ timers.reconnectionIntervalId # null
    /\ timers.reconnectionTimeoutId # null

\* C4: every transition into ReconnectionSuccessful or ReconnectionFailed is
\* taken from WaitingReconnection while processing a reconnection poll result
\* or the reconnection timeout.
C4_TerminalOnlyFromWaiting ==
    [][(dos'.type \in TerminalStates /\ dos' # dos)
          => /\ dos.type = "waiting_reconnection"
             /\ IsDispatch
             /\ Head(inbox).type \in {"HealthcheckResponse", "ReconnectionTimeout"}]_vars

C4_Witness ==
    /\ dos.type = "reconnection_failed"
    /\ lastEvent.type = "ReconnectionTimeout"

StaleTimerEvent(e) ==
    \/ /\ e.type \in {"ReconnectionCheckTick", "ReconnectionTimeout"}
       /\ dos.type \notin InProgressStates
    \/ /\ e.type \in {"NewIpCheckTick", "NewIpCheckTimeout"}
       /\ ncs.type # "waiting_for_new_ip"

\* C5: a reconnection or new-IP tick (or timeout) processed after its owning
\* state has been exited changes nothing: the Model, the timers and the
\* requests in flight stay as they are and no effect is returned.
C5_StaleTickIsNoOp ==
    [][(IsDispatch /\ StaleTimerEvent(Head(inbox)))
          => /\ model' = model
             /\ update(model, Head(inbox)).effects = << >>
             /\ timers' = timers
             /\ commandPending' = commandPending
             /\ probesInFlight' = probesInFlight
             /\ networkPending' = networkPending
             /\ newIpProbesInFlight' = newIpProbesInFlight
             /\ redirectedTo' = redirectedTo]_vars

C5_Witness ==
    /\ lastEvent.type = "ReconnectionCheckTick"
    /\ dos.type = "reconnection_successful"

\* C6: while a reboot or factory reset is in progress and its timeout is
\* pending, the timeout is due exactly at the kind-specific deadline counted
\* from the entry into the operation state (300000 ms / 600000 ms); Model
\* updates in between do not postpone it.
C6_DeadlineFromEntry ==
    (/\ dos.type \in InProgressStates
     /\ dos.operation \in {"Reboot", "FactoryReset"}
     /\ timers.reconnectionTimeoutId # null)
        => opElapsed + timers.reconnectionTimeoutId = Deadline(dos.operation)

\* C7: whenever the state is Rebooting, FactoryResetting or Updating, the
\* 5000 ms poll interval and the reconnection timeout are both armed.
C7_TimersArmedDuringOperation ==
    dos.type \in OperationStates
        => /\ timers.reconnectionIntervalId \in 0..RECONNECTION_POLL_INTERVAL_MS
           /\ timers.reconnectionTimeoutId \in 0..Deadline(dos.operation)

C7_Witness ==
    /\ dos.type = "updating"
    /\ timers.reconnectionIntervalId = RECONNECTION_POLL_INTERVAL_MS
    /\ timers.reconnectionTimeoutId = REBOOT_TIMEOUT_MS

\* C8: a reboot whose polls never succeed ends in ReconnectionFailed with both
\* reconnection timers cancelled: while the reboot is waiting, the timeout is
\* either still armed or its event has arrived, and processing that event
\* while waiting yields ReconnectionFailed and leaves no reconnection timer.
C8_RebootTimesOut ==
    /\ []((dos = [type |-> "waiting_reconnection", operation |-> "Reboot"]
             /\ timers.reconnectionTimeoutId = null)
            => Queued("ReconnectionTimeout"))
    /\ [][(Processing("ReconnectionTimeout")
             /\ dos = [type |-> "waiting_reconnection", operation |-> "Reboot"])
            => /\ dos' = [type |-> "reconnection_failed", operation |-> "Reboot"]
               /\ ReconnectionTimersCancelled(timers')]_vars

C8_Witness ==
    /\ dos = [type |-> "reconnection_failed", operation |-> "Reboot"]
    /\ opElapsed >= REBOOT_TIMEOUT_MS
    /\ ReconnectionTimersCancelled(timers)

\* C9: a successful response to the reboot request moves Idle to Rebooting,
\* and a successful poll while the reboot waits for reconnection yields
\* ReconnectionSuccessful(Reboot), however many polls failed before.
C9_RebootReconnects ==
    [][/\ (Processing("CommandResponse") /\ Head(inbox).result = "ok"
             /\ Head(inbox).operation = "Reboot" /\ dos.type = "idle")
            => dos' = [type |-> "rebooting", operation |-> "Reboot"]
       /\ (Processing("HealthcheckResponse") /\ Head(inbox).result # "error"
             /\ dos = [type |-> "waiting_reconnection", operation |-> "Reboot"])
            => dos' = [type |-> "reconnection_successful", operation |-> "Reboot"]]_vars

C9_Witness ==
    /\ dos = [type |-> "reconnection_successful", operation |-> "Reboot"]
    /\ opElapsed = 6 * RECONNECTION_POLL_INTERVAL_MS
    /\ lastEvent.type = "HealthcheckResponse"

\* C10: the state leaves Idle only by processing a successful response to the
\* command request, for the state of that command; cancelling the dialog or a
\* failed command response keeps the state Idle and arms no timer.
C10_LeavesIdleOnlyOnSuccess ==
    [][/\ (dos.type = "idle" /\ dos'.type # "idle")
            => /\ Processing("CommandResponse")
               /\ Head(inbox).result = "ok"
               /\ dos' = OperationState(Head(inbox).operation)
       /\ (Processing("CommandResponse") /\ Head(inbox).result = "error")
            => (dos' = dos /\ timers' = timers)
       /\ (dialog # "None" /\ dialog' = "None" /\ inbox' = inbox)
            => (dos' = dos /\ timers' = timers /\ commandPending' = commandPending)]_vars

C10_Witness ==
    /\ lastEvent = [type |-> "CommandResponse", result |-> "error"]
    /\ dos.type = "idle"
    /\ ReconnectionTimersCancelled(timers)

\* A step in which an event of type t arrives.
Fired(t) == Len(inbox') = Len(inbox) + 1 /\ inbox'[Len(inbox')].type = t

ReconnectionIds(tm) == << tm.reconnectionIntervalId, tm.reconnectionTimeoutId >>

NewIpIds(tm) == << tm.newIpIntervalId, tm.newIpTimeoutId >>

\* C12: the two state machines share no timer.  Whatever the watchers do to
\* the reconnection timers when an event is processed is decided by the
\* device-operation state alone and whatever they do to the new-IP timers by
\* the network-change state alone, and a timer callback of one family leaves
\* the ids of the other family as they are; this also holds while both
\* machines are non-idle.
C12_TimersNotConflated ==
    [][/\ (IsDispatch /\ refreshed(model', model))
            => /\ ReconnectionIds(timers') =
                     ReconnectionIds(watchDeviceOperationState(timers, dos'.type, dos.type))
               /\ NewIpIds(timers') =
                     NewIpIds(watchNetworkChangeState(timers, ncs'.type, ncs.type))
       /\ (IsDispatch /\ dos'.type = "idle" /\ dos.type = "idle")
            => ReconnectionIds(timers') = ReconnectionIds(timers)
       /\ (IsDispatch /\ ncs'.type = "idle" /\ ncs.type = "idle")
            => NewIpIds(timers') = NewIpIds(timers)
       /\ (Fired("ReconnectionCheckTick") \/ Fired("ReconnectionTimeout"))
            => NewIpIds(timers') = NewIpIds(timers)
       /\ (Fired("NewIpCheckTick") \/ Fired("NewIpCheckTimeout"))
            => ReconnectionIds(timers') = ReconnectionIds(timers)]_vars

C12_Witness ==
    /\ dos.type = "waiting_reconnection"
    /\ ncs.type = "waiting_for_new_ip"
    /\ timers.reconnectionIntervalId # null /\ timers.reconnectionTimeoutId # null
    /\ timers.newIpIntervalId # null /\ timers.newIpTimeoutId # null
    /\ lastEvent.type = "NewIpProbeResponse"
    /\ opElapsed > 0

NewIpTimersCancelled(tm) == tm.newIpIntervalId = null /\ tm.newIpTimeoutId = null

\* C13: entering WaitingForNewIp arms the 5000 ms poll interval and the
\* 90000 ms timeout; while the state is WaitingForNewIp both stay armed until
\* the timeout has fired; every exit from WaitingForNewIp cancels both, and
\* outside WaitingForNewIp no new-IP timer is armed.
C13_NewIpTimersPaired ==
    /\ [](ncs.type = "waiting_for_new_ip"
            => \/ /\ timers.newIpIntervalId \in 0..NEW_IP_POLL_INTERVAL_MS
                  /\ timers.newIpTimeoutId \in 0..NEW_IP_TIMEOUT_MS
               \/ /\ NewIpTimersCancelled(timers)
                  /\ Queued("NewIpCheckTimeout"))
    /\ [](ncs.type # "waiting_for_new_ip" => NewIpTimersCancelled(timers))
    /\ [][/\ (ncs.type # "waiting_for_new_ip" /\ ncs'.type = "waiting_for_new_ip")
              => NewIpIds(timers') = << NEW_IP_POLL_INTERVAL_MS, NEW_IP_TIMEOUT_MS >>
         /\ (ncs.type = "waiting_for_new_ip" /\ ncs'.type # "waiting_for_new_ip")
              => NewIpTimersCancelled(timers')]_vars

C13_Witness ==
    /\ ncs.type = "new_ip_reachable"
    /\ lastEvent = [type |-> "NewIpProbeResponse", result |-> "ok"]
    /\ NewIpTimersCancelled(timers)

\* C14: the 90000 ms allowed for reaching the new address count from the
\* entry into WaitingForNewIp: while the state stays WaitingForNewIp the time
\* left on the timeout never grows.  Processing the timeout while waiting
\* yields NewIpTimeout with the same newIp and uiPort, and NewIpTimeout is
\* left only by processing the operator's dismissal.
C14_NewIpTimeoutFromEntry ==
    [][/\ (ncs.type = "waiting_for_new_ip" /\ ncs'.type = "waiting_for_new_ip"
             /\ timers.newIpTimeoutId # null /\ timers'.newIpTimeoutId # null)
            => timers'.newIpTimeoutId <= timers.newIpTimeoutId
       /\ (Processing("NewIpCheckTimeout") /\ ncs.type = "waiting_for_new_ip")
            => /\ ncs'.type = "new_ip_timeout"
               /\ ncs'.newIp = ncs.newIp /\ ncs'.uiPort = ncs.uiPort
       /\ (ncs.type = "new_ip_timeout" /\ ncs' # ncs)
            => (Processing("DismissNetwork") /\ ncs' = NetworkIdle)]_vars

\* C15: a successful new-IP poll processed in WaitingForNewIp yields
\* NewIpReachable with the same newIp and makes the page redirect to that
\* address; the page is redirected once, never a second time.
C15_RedirectsOnce ==
    /\ [][(Processing("NewIpProbeResponse") /\ Head(inbox).result = "ok"
             /\ ncs.type = "waiting_for_new_ip")
            => /\ ncs'.type = "new_ip_reachable"
               /\ ncs'.newIp = ncs.newIp
               /\ redirectedTo' = ncs.newIp
               /\ page'.replaceCalls = page.replaceCalls + 1]_vars
    /\ [](page.replaceCalls <= 1)

----------------------------------------------------------------------------
(* Rollback default of the confirmation modal *)

\* The confirmation modal is open for a change of the connected adapter.
ModalPresented == localForm.confirmationModalOpen /\ localForm.isCurrentConnection

\* The form switches an adapter with a static address to DHCP.
StaticToDhcp == ~model.networkAdapter.dhcp /\ localForm.addressAssignment = "dhcp"

\* The form leaves the adapter static or switches it from DHCP to static.
ToStatic == localForm.addressAssignment = "static"

\* C16: when the operator switches the connected adapter from static to DHCP,
\* the rollback checkbox of the confirmation modal is unchecked by default
\* (the operator has not touched the checkbox).
C16_StaticToDhcpDefaultsOff ==
    (ModalPresented /\ StaticToDhcp) => ~localForm.enableRollback

\* C17: when the operator changes the connected adapter from DHCP to static or
\* from static to static, the rollback checkbox of the confirmation modal is
\* checked by default (the operator has not touched the checkbox).
C17_ToStaticDefaultsOn ==
    (ModalPresented /\ ToStatic) => localForm.enableRollback

\* The configuration that the step commits (the SetNetworkConfig event it sends).
Committed == inbox'[Len(inbox')]

\* C18: a change of the adapter the client is connected through is committed
\* only from the open confirmation modal, and the rollback value sent with the
\* commit is the value the checkbox of the modal shows (the default or what the
\* operator made of it), never absent.
C18_CommitFromModal ==
    [][(Fired("SetNetworkConfig") /\ Committed.config.isCurrentConnection)
          => /\ localForm.confirmationModalOpen
             /\ Committed.data.enableRollback =
                    (IF localForm.enableRollback THEN "true" ELSE "false")]_vars

\* A change of the connected adapter has been committed from the modal (static
\* to DHCP, rollback enabled) and the submit is running.
C18_Witness ==
    \E i \in 1..Len(inbox) :
        /\ inbox[i].type = "SetNetworkConfig"
        /\ inbox[i].config.isCurrentConnection
        /\ inbox[i].config.switchingToDhcp
        /\ inbox[i].data.enableRollback = "true"
        /\ localForm.isSubmitting
        /\ pushes = 0

----------------------------------------------------------------------------
(* Update validation and the acknowledgement of notifications *)

\* The step opens the update-validation modal.
UpdateModalOpens == ~app.showUpdateValidationModal /\ app'.showUpdateValidationModal

\* C11: while the core waits for the device after an update, a probe response
\* makes the reconnection successful exactly when its payload carries the
\* status Succeeded or Recovered; and the update-validation modal, when it
\* opens, reports the update as rolled back exactly when the status is Recovered.
C11_UpdateQualifiedByValidation ==
    [][/\ (Processing("HealthcheckResponse") /\ dos.type = "waiting_reconnection"
           /\ dos.operation = "Update")
          => (model'.deviceOperationState.type = "reconnection_successful"
              <=> Head(inbox).result \in {"Succeeded", "Recovered"})
       /\ UpdateModalOpens
          => (app'.updateValidationIsRollback
              <=> model'.updateValidationStatus = "Recovered")]_vars

\* An update has ended with Recovered: the reconnection is successful and the
\* modal reports the update as rolled back.
C11_Witness ==
    /\ dos.type = "reconnection_successful" /\ dos.operation = "Update"
    /\ model.updateValidationStatus = "Recovered"
    /\ app.showUpdateValidationModal /\ app.updateValidationIsRollback
    /\ device.cycles = 1

\* C19: whenever the last healthcheck the core has seen reports the update
\* result (Succeeded or Recovered) as unacknowledged, the update-validation
\* modal is showing, also after an earlier acknowledgement in the session has
\* set the acked-on-mount flag: the live value takes precedence over the flag.
C19_LiveUnackedShows ==
    (/\ model.healthcheck.fetched /\ ~model.healthcheck.updateValidationAcked
     /\ model.updateValidationStatus \in {"Succeeded", "Recovered"})
        => app.showUpdateValidationModal

\* After an acknowledgement, the result of a new update cycle is reported as
\* unacknowledged and the modal shows again although the flag says acked.
C19_Witness ==
    /\ app.updateValidationAcknowledged
    /\ app.updateValidationAckedOnMount
    /\ app.mountFetch = "done"
    /\ device.cycles > 0
    /\ model.healthcheck.fetched /\ ~model.healthcheck.updateValidationAcked
    /\ app.showUpdateValidationModal

RollbackHidden ==
    /\ app.showRollbackNotification
    /\ ~app'.showRollbackNotification
    /\ page'.reloads = page.reloads

\* The backend has received the acknowledgement of the rollback: the session
\* of SpecReload starts with a device that reports a rollback, and only the
\* request to ack-rollback clears its flag.
RollbackAcknowledged == ~device.networkRollbackOccurred

RollbackReported ==
    \/ app.mountFetch = "pending" /\ device.networkRollbackOccurred
    \/ \E i \in 1..Len(inbox) : /\ inbox[i].type = "HealthcheckResponse"
                                /\ inbox[i].result # "error"
                                /\ inbox[i].health.networkRollbackOccurred

FactoryResetAcknowledged == app.mountFetch = "done" /\ app.factoryResetAckedOnMount

\* The result of a factory reset done after the acknowledgement is pushed to
\* the page: it differs from the result shown before, and the last healthcheck
\* has reported it as not acknowledged.
SecondResetResultArrives ==
    /\ IsDispatch
    /\ Head(inbox).type = "FactoryResetResult"
    /\ Head(inbox).result \notin {"unknown", model.factoryResetResult}
    /\ FactoryResetAcknowledged
    /\ ~device.factoryResetResultAcked
    /\ model.healthcheck.fetched
    /\ ~model.healthcheck.factoryResetResultAcked

\* C23: after a factory-reset result has been acknowledged, the result of a
\* second factory reset of the same session, reported as not acknowledged,
\* opens the factory-reset notification again.
C23_SecondResetShown ==
    [][SecondResetResultArrives => app'.showFactoryResetResultModal]_vars

\* An acknowledge function runs for the second time in a row.
SecondCall(t) ==
    /\ lastEvent.type = t
    /\ lastEvent'.type = t
    /\ device'.repeatedAcks = device.repeatedAcks + 1

\* C24: acknowledging is idempotent. When an acknowledge function is called
\* twice in a row, the notification of its kind is hidden after the first
\* call and hidden after the second.
C24_AcknowledgeIdempotent ==
    [][/\ SecondCall("AckRollback") =>
              ~app.showRollbackNotification /\ ~app'.showRollbackNotification
       /\ SecondCall("AckFactoryResetResult") =>
              ~app.showFactoryResetResultModal /\ ~app'.showFactoryResetResultModal
       /\ SecondCall("AckUpdateValidation") =>
              ~app.showUpdateValidationModal /\ ~app'.showUpdateValidationModal]_vars

\* Both the factory-reset result and the update result have been acknowledged
\* twice in a row, with a healthcheck stored in the Model.
C24_Witness ==
    /\ device.repeatedAcks = 2
    /\ lastEvent.type = "AckUpdateValidation"
    /\ app.mountFetch = "done"
    /\ app.factoryResetAckedOnMount
    /\ model.healthcheck.fetched
    /\ ~ModalOpen

\* The pushes a channel can deliver again: a copy of the signal that opened
\* the notification, or the older publications of its history.
Redeliveries ==
    {Ev("UpdateValidationStatus", "None", st) : st \in ValidationStatuses}
        \cup {Ev("FactoryResetResult", "None", fr) : fr \in {"modeSupported", "modeUnsupported"}}

\* App.vue after the core has processed e and its watchers have run.
AfterDelivery(a, m, e) == runAppWatchers(a, a, update(m, e).model, m)

\* C25: the acknowledgement is recorded in the step that hides the
\* notification. Once the operator has hidden the factory-reset or the
\* update-validation notification, its acknowledgement is on record, and a
\* push delivered again right then does not open it again.
C25_RecordedWhenHidden ==
    [][/\ (app.showFactoryResetResultModal /\ ~app'.showFactoryResetResultModal) =>
              /\ app'.factoryResetAckedOnMount
              /\ \A e \in Redeliveries :
                     ~AfterDelivery(app', model', e).showFactoryResetResultModal
       /\ (app.showUpdateValidationModal /\ ~app'.showUpdateValidationModal) =>
              /\ ~notAcked(app', model')
              /\ \A e \in Redeliveries :
                     ~AfterDelivery(app', model', e).showUpdateValidationModal]_vars

\* Both notifications have been hidden by the operator while the device still
\* publishes their results.
C25_Witness ==
    /\ lastEvent.type \in {"AckFactoryResetResult", "AckUpdateValidation"}
    /\ app.updateValidationAcknowledged
    /\ app.factoryResetAckedOnMount /\ app.mountFetch = "done"
    /\ device.factoryResetResult # "unknown"
    /\ model.factoryResetResult # "unknown"
    /\ model.updateValidationStatus \in {"Succeeded", "Recovered"}
    /\ ~ModalOpen

\* The local fields of the form show the adapter status of Model m.
ShowsAdapterStatus(lf, m) ==
    /\ lf.ipAddress = m.networkStatus
    /\ lf.addressAssignment = (IF m.networkAdapter.dhcp THEN "dhcp" ELSE "static")
    /\ lf.dns = m.networkAdapter.dns

\* C26: discarding a dirty form resets every field to the adapter status
\* received last, pushes received while the form was dirty included, and
\* leaves the form clean.
C26_DiscardResetsToLatest ==
    [][(Processing("NetworkFormReset") /\ fs.type = "editing" /\ fs.dirty)
          => /\ ~fs'.dirty
             /\ fs'.ipAddress = model.networkStatus
             /\ fs'.dhcp = model.networkAdapter.dhcp
             /\ fs'.dns = model.networkAdapter.dns
             /\ ShowsAdapterStatus(localForm', model)]_vars

\* The form was opened on 192.168.1.50 with a static address and DNS 8.8.8.8;
\* after the discard it shows the status pushed while it was dirty.
C26_Witness ==
    /\ lastEvent.type = "NetworkFormReset"
    /\ fs.type = "editing" /\ ~fs.dirty
    /\ localForm.ipAddress = "192.168.100.50"
    /\ localForm.addressAssignment = "dhcp"
    /\ localForm.dns = "1.1.1.1"

\* The form data of the core hold the status carried by push e.
HoldsPushedStatus(f, e) ==
    /\ f.ipAddress = e.result
    /\ f.dhcp = e.data.dhcp
    /\ f.dns = e.data.dns

\* C27: while the form is not dirty (and no edit of the operator is on its
\* way to the core), processing a live NetworkStatusV1 update of the adapter
\* being edited replaces the field values of the form with the pushed
\* values, and the form stays clean.
C27_CleanFormFollowsPush ==
    [][(Processing("NetworkStatus") /\ fs.type = "editing" /\ ~fs.dirty /\ FormSettled)
          => /\ HoldsPushedStatus(fs', Head(inbox))
             /\ ~fs'.dirty
             /\ ShowsAdapterStatus(localForm', model')
             /\ model'.networkStatus = Head(inbox).result]_vars

\* A clean form opened on 192.168.1.50, static, DNS 8.8.8.8 has just taken
\* over a push that changed all three.
C27_Witness ==
    /\ lastEvent = [type |-> "NetworkStatus", result |-> "192.168.100.50"]
    /\ inbox = << >>
    /\ fs.type = "editing" /\ ~fs.dirty
    /\ localForm.ipAddress = "192.168.100.50"
    /\ localForm.addressAssignment = "dhcp"
    /\ localForm.dns = "1.1.1.1"

\* An event arrives: it is put behind the events that wait, the Model is not
\* touched.
Arrival ==
    /\ Len(inbox') = Len(inbox) + 1
    /\ SubSeq(inbox', 1, Len(inbox)) = inbox
    /\ model' = model

\* C28: events are applied to the Model strictly in the order of their
\* arrival. A step leaves Model and queue alone, or queues an arriving event
\* behind those that wait, or applies the one event that arrived first and
\* leaves the order of the others as it is.
C28_ArrivalOrder ==
    [][\/ UNCHANGED << model, inbox >>
       \/ Arrival
       \/ /\ inbox # << >>
          /\ inbox' = Tail(inbox)
          /\ model' = update(model, Head(inbox)).model
          /\ lastEvent' = [type |-> Head(inbox).type, result |-> Head(inbox).result]]_vars

\* The reconnection timeout has been applied while a probe response that
\* arrived after it still waits.
C28_Witness ==
    /\ lastEvent.type = "ReconnectionTimeout"
    /\ inbox # << >>
    /\ Head(inbox).type = "HealthcheckResponse"
    /\ dos.type = "reconnection_failed"

\* C29: a reconnection timeout that finds the operation still in progress puts
\* it into ReconnectionFailed, and the view model carries that state until the
\* Dismiss of the operator is processed. While an operation is in progress the
\* timeout is armed or its event waits in the queue, so that the timers are
\* never gone with the operation neither terminal nor about to be.
C29_TimeoutIsTerminal ==
    /\ [](dos.type \in InProgressStates
            => (timers.reconnectionTimeoutId # null \/ Queued("ReconnectionTimeout")))
    /\ [][(Processing("ReconnectionTimeout") /\ dos.type \in InProgressStates)
            => dos' = [type |-> "reconnection_failed", operation |-> dos.operation]]_vars
    /\ [][(dos.type = "reconnection_failed" /\ dos' # dos)
            => (Processing("Dismiss") /\ dos' = Idle)]_vars

\* The update has timed out, and a probe response that reports the device as
\* healthy has been processed afterwards: the failure is still shown.
C29_Witness ==
    /\ dos = [type |-> "reconnection_failed", operation |-> "Update"]
    /\ lastEvent.type = "HealthcheckResponse"
    /\ lastEvent.result # "error"
    /\ ReconnectionTimersCancelled(timers)

\* A step in which a 401 response is handled: by the core for a device
\* command, or by uploadFile for the upload of an update file.
Unauthorized ==
    \/ Processing("CommandResponse") /\ Head(inbox).result = "unauthorized"
    \/ page.uploadFetching /\ ~page'.uploadFetching /\ page'.uploadStatus = 401

\* C30: handling a 401 response sends no request again, and after it the
\* session is unauthenticated, the channels are unsubscribed and a protected
\* route has been left for the login page.
C30_UnauthorizedEndsSession ==
    [][Unauthorized
         => /\ page'.posts = page.posts
            /\ commandPending' = commandPending
            /\ probesInFlight' = probesInFlight
            /\ ~model'.isAuthenticated
            /\ ~page'.subscribed
            /\ (requiresAuth(page.route) => page'.route = "/login")]_vars

\* The operator submits the set-password form with two different passwords.
MismatchSubmitted ==
    /\ page'.setPassword.submits = page.setPassword.submits + 1
    /\ page.setPassword.password # page.setPassword.repeatPassword

\* C31: submitting two passwords that differ shows the error in the form and
\* does nothing else: no event reaches the core, no request is sent, and the
\* Model with its state machines stays as it is.
C31_MismatchReportedInline ==
    [][MismatchSubmitted
         => /\ page'.setPassword.errorMsg = "Passwords do not match."
            /\ page' = [page EXCEPT !.setPassword.errorMsg = "Passwords do not match.",
                                    !.setPassword.submits = @ + 1]
            /\ inbox' = inbox
            /\ model' = model
            /\ UNCHANGED << commandPending, probesInFlight, networkPending, timers >>]_vars

\* A mismatch is shown after an earlier submission was sent and refused: the
\* one request of the session belongs to the earlier submission.
C31_Witness ==
    /\ page.setPassword.errorMsg = "Passwords do not match."
    /\ page.setPassword.submits = 2
    /\ page.setPassword.requests = 1
    /\ model.errorMessage # "none"
    /\ inbox = << >>

\* The event variants of the model, and one that no handler knows.
EventTypes ==
    {"Command", "CommandResponse", "ReconnectionCheckTick", "HealthcheckResponse",
     "ReconnectionTimeout", "Dismiss", "OnlineStatus", "SetNetworkConfig",
     "SetNetworkConfigResponse", "NewIpCheckTick", "NewIpProbeResponse",
     "NewIpCheckTimeout", "DismissNetwork", "NetworkFormStartEdit", "NetworkFormUpdate",
     "NetworkFormReset", "NetworkStatus", "UpdateValidationStatus", "FactoryResetResult",
     "AckRollback", "AckFactoryResetResult", "AckUpdateValidation", "LoginResponse",
     "SetPassword", "SetPasswordResponse", "Unauthorized", "Unknown"}

SampleEvent(t, res) ==
    [type |-> t, operation |-> "Reboot", result |-> res, config |-> NoConfig,
     data |-> NoData, health |-> NoHealth]

\* Events the state machines of Model m do not expect in their current state.
Unexpected(m, t) ==
    LET d == m.deviceOperationState.type
        n == m.networkChangeState.type
    IN  \/ t = "Unknown"
        \/ t \in {"Command", "CommandResponse"} /\ d # "idle"
        \/ t = "ReconnectionCheckTick" /\ d \notin InProgressStates
        \/ t = "ReconnectionTimeout" /\ d # "waiting_reconnection"
        \/ t = "Dismiss" /\ d \notin TerminalStates
        \/ t = "SetNetworkConfig" /\ n # "idle"
        \/ t \in {"NewIpCheckTick", "NewIpProbeResponse", "NewIpCheckTimeout"}
              /\ n # "waiting_for_new_ip"
        \/ t = "DismissNetwork" /\ n # "new_ip_timeout"
        \/ t \in {"NetworkFormUpdate", "NetworkFormReset"}
              /\ m.networkFormState.type # "editing"

\* C33: in every Model the program reaches, every event variant has a
\* transition: the Reducer yields a Model of the same shape and a list of
\* effects, and for an event the state machines do not expect in that state
\* it yields the Model unchanged and no effect.
C33_ReducerTotal ==
    \A t \in EventTypes, res \in {"ok", "error"} :
        LET r == update(model, SampleEvent(t, res))
        IN  /\ DOMAIN r = {"model", "effects"}
            /\ DOMAIN r.model = DOMAIN model
            /\ r.model.deviceOperationState.type
                  \in {"idle"} \cup InProgressStates \cup TerminalStates
            /\ Len(r.effects) <= 1
            /\ Unexpected(model, t) => r = NoOp(model)

\* The Models the Reducer is applied to: every state of the device operation,
\* of the network change and of the network form.
DeviceOperationStates ==
    {Idle} \cup {[type |-> t, operation |-> op] :
                    t \in InProgressStates \cup TerminalStates, op \in Operations}

NetworkChangeStates ==
    {NetworkIdle} \cup {[type |-> t, newIp |-> "192.168.1.60", uiPort |-> UiPort,
                          switchingToDhcp |-> FALSE] :
                            t \in {"waiting_for_new_ip", "new_ip_reachable", "new_ip_timeout"}}

NetworkFormStates ==
    {NotEditing} \cup {[AdapterForm(InitModel, TRUE) EXCEPT !.dirty = d] : d \in BOOLEAN}

ReducerModels ==
    {[InitModel EXCEPT !.deviceOperationState = d, !.networkChangeState = n,
                       !.networkFormState = f] :
        d \in DeviceOperationStates, n \in NetworkChangeStates, f \in NetworkFormStates}

\* The Reducer as a function: one event is applied to one Model.
InitReducer ==
    /\ model \in ReducerModels
    /\ \E t \in EventTypes, res \in {"ok", "error"} : inbox = << SampleEvent(t, res) >>
    /\ app = InitApp
    /\ localForm = InitLocalForm
    /\ timers = NoTimers
    /\ commandPending = "None"
    /\ probesInFlight = 0
    /\ dialog = "None"
    /\ opElapsed = 0
    /\ pushes = 0
    /\ lastEvent = [type |-> "None", result |-> "none"]
    /\ networkPending = NoConfig
    /\ newIpProbesInFlight = 0
    /\ redirectedTo = "none"
    /\ page = LoadedPage
    /\ device = QuietDevice

SpecReducer == InitReducer /\ [][Dispatch]_vars

\* A reconnection timeout was applied to a Model whose operation had already
\* succeeded, and the operation is still shown as succeeded.
C33_Witness ==
    /\ dos.type = "reconnection_successful"
    /\ inbox = << >>
    /\ lastEvent.type = "ReconnectionTimeout"
    /\ Unexpected(model, lastEvent.type)

ValidationModalOpens == app'.showUpdateValidationModal /\ ~app.showUpdateValidationModal

----------------------------------------------------------------------------
(* Upload of an update file around an update *)

NextUpload ==
    \/ StartUpdate
    \/ DeviceAcceptsCommand
    \/ DeviceComesBack
    \/ ReconnectionIntervalElapses
    \/ DeviceProbeResponseArrives
    \/ UpdateValidationPush
    \/ UserDismiss
    \/ SelectFile
    \/ uploadFile
    \/ UploadResponds
    \/ Dispatch

SpecUpload == Init /\ [][NextUpload]_vars

UploadSucceeds == page.uploadFetching /\ ~page'.uploadFetching /\ page'.uploadStatus = 200

\* C35: an upload completes against the file selected when it started: while
\* the request is in flight the selected file is still the posted one, and a
\* successful upload reports the name of the posted file.
C35_UploadKeepsFile ==
    [][/\ page'.uploadFetching => page'.updateFile = page'.formData
       /\ UploadSucceeds => page'.fileUploaded = page.formData]_vars

----------------------------------------------------------------------------
(* Timers in existence *)

\* The timers of one kind that exist: the one its id variable refers to and
\* the one orphaned by overwriting the variable.
ExistingTimers(tm, id) ==
    (IF tm[id] # null THEN 1 ELSE 0) + (IF id \in tm.orphans THEN 1 ELSE 0)

\* C36: at any moment at most one timer of each of the four kinds exists;
\* polling started while timers of its family are armed cancels them first.
C36_OneTimerPerKind == \A id \in TimerIds : ExistingTimers(timers, id) <= 1

\* Polling has been started again while its timers were armed: the interval
\* is back at its full period although part of the deadline has been used.
C36_Witness ==
    /\ model.deviceOperationState.type \in OperationStates
    /\ lastEvent.type = "OnlineStatus"
    /\ opElapsed > 0
    /\ timers.reconnectionIntervalId = RECONNECTION_POLL_INTERVAL_MS
    /\ timers.reconnectionTimeoutId \in {REBOOT_TIMEOUT_MS, FACTORY_RESET_TIMEOUT_MS}

----------------------------------------------------------------------------
(* Field watcher during a sync from the core *)

\* The watcher on networkFormState has copied the form data of the core into
\* the local fields.
SyncFromCore == LocalFields(localForm') # LocalFields(localForm) /\ model' # model

\* C37: copying the form data of the core into the local fields of a clean
\* form sends no form-update event back to the core, and a live update applied
\* to a clean form leaves the form clean.
C37_SyncSendsNoUpdate ==
    /\ [][SyncFromCore => (inbox' = Tail(inbox) /\ ~fs'.dirty)]_vars
    /\ [][(Processing("NetworkStatus") /\ fs.type = "editing" /\ ~fs.dirty)
            => (fs'.type = "editing" /\ ~fs'.dirty)]_vars

\* A push has just moved the address of a clean form, and nothing is on its
\* way to the core.
C37_Witness ==
    /\ lastEvent.type = "NetworkStatus"
    /\ inbox = << >>
    /\ fs.type = "editing" /\ ~fs.dirty
    /\ localForm.ipAddress = lastEvent.result
    /\ localForm.ipAddress # InitLocalForm.ipAddress
    /\ localForm.addressAssignment = InitLocalForm.addressAssignment

----------------------------------------------------------------------------
(* Redirect to the new address *)

\* The ports the page can have been loaded from: the port of the UI, the
\* default port, and another port that is forwarded to the UI.
LocationPorts == {UiPort, "", "8443"}

InitRedirect ==
    /\ model = InitModel
    /\ app = InitApp
    /\ localForm = InitLocalForm
    /\ inbox = << >>
    /\ timers = NoTimers
    /\ commandPending = "None"
    /\ probesInFlight = 0
    /\ dialog = "None"
    /\ opElapsed = 0
    /\ pushes = 0
    /\ lastEvent = [type |-> "None", result |-> "none"]
    /\ networkPending = NoConfig
    /\ newIpProbesInFlight = 0
    /\ redirectedTo = "none"
    /\ device = QuietDevice
    /\ \E port \in LocationPorts : page = [LoadedPage EXCEPT !.location.port = port]

NextRedirect ==
    \/ SubmitNetworkConfig
    \/ NetworkResponseArrives
    \/ NewIpProbeResponseArrives
    \/ UserDismissNetwork
    \/ NewIpIntervalFires
    \/ NewIpTimeoutFires
    \/ Dispatch
    \/ PageUnloads
    \/ Advance

SpecRedirect == InitRedirect /\ [][NextRedirect]_vars

\* The address the core polls in WaitingForNewIp.
PolledAddress(s) == [protocol |-> "https:", host |-> s.newIp, port |-> s.uiPort]

Redirects == page'.replaceCalls = page.replaceCalls + 1

\* C38: the address the page is redirected to when the new address has been
\* reached is the newIp:uiPort that was polled in WaitingForNewIp, and the one
\* offered there as the manual link.
C38_RedirectToPolledAddress ==
    [][(Redirects /\ ncs.type = "waiting_for_new_ip")
          => /\ Address(page'.replaceUrl) = Address(PolledAddress(ncs))
             /\ redirectUrl(model, page.location) # NoUrl
                   => Address(page'.replaceUrl) = Address(redirectUrl(model, page.location))]_vars

----------------------------------------------------------------------------
(* Reconnection deadline per operation *)

\* The watcher has armed the reconnection timers in this step.
ArmsReconnection ==
    /\ model' # model
    /\ dos'.type \in OperationStates

----------------------------------------------------------------------------
(* Unsaved changes: adapter tabs and leaving the network page *)

Adapters == {"eth0", "wlan0"}

OnNetworkPage == PageAlive /\ page.route = "/network"

\* No confirmation dialog covers the page.
NoUnsavedDialog ==
    ~page.nav.showUnsavedChangesDialog /\ ~page.nav.showNavigationDialog

\* The watcher on tab has seen the current tab.
TabWatcherIdle == page.nav.tab = page.nav.oldTab

\* watch(tab, (newTab, oldTab) => ...) of DeviceNetworks.vue, dirty being
\* viewModel.network_form_dirty when the callback runs.
watchTab_NoDirtyCheck(nav, dirty) ==
    IF nav.tab = nav.oldTab THEN nav ELSE [nav EXCEPT !.oldTab = nav.tab]

watchTab(nav, dirty) ==
    IF nav.tab = nav.oldTab THEN nav
    ELSE IF dirty /\ nav.oldTab # NullRef
    THEN [nav EXCEPT !.showUnsavedChangesDialog = TRUE,
                     !.pendingTab = nav.tab,
                     !.tab = nav.oldTab]
    ELSE [nav EXCEPT !.oldTab = nav.tab]

ResetEvent == NetEv("NetworkFormReset", "none", NoConfig)

\* networkFormReset(currentAdapter) of the two confirm handlers: sent only
\* while the form is editing an adapter.
resetCurrentAdapter ==
    IF model.networkFormState.type = "editing"
    THEN Arrive(ResetEvent)
    ELSE inbox' = inbox

\* The operator clicks the tab of another adapter (v-model of v-tabs).
SelectTab ==
    /\ OnNetworkPage
    /\ NoUnsavedDialog
    /\ TabWatcherIdle
    /\ FormSettled
    /\ \E t \in Adapters \ {page.nav.tab} : page' = [page EXCEPT !.nav.tab = t]
    /\ UNCHANGED pageOnlyVars

\* The watcher on tab runs. When it lets the change pass, the window shows the
\* settings of the new adapter, whose setup script starts editing it.
TabWatcherRuns ==
    /\ OnNetworkPage
    /\ ~TabWatcherIdle
    /\ page' = [page EXCEPT !.nav = watchTab(@, model.networkFormState.dirty)]
    /\ IF page'.nav.oldTab # page.nav.oldTab
       THEN Arrive(FormEv("NetworkFormStartEdit", "none", NoData))
       ELSE inbox' = inbox
    /\ UNCHANGED << trackerVars, localForm, model, timers, pushes, lastEvent, deviceVars,
                    networkPending, newIpProbesInFlight, redirectedTo >>

\* confirmTabChange of DeviceNetworks.vue
confirmTabChange ==
    /\ OnNetworkPage
    /\ page.nav.showUnsavedChangesDialog
    /\ TabWatcherIdle
    /\ IF page.nav.pendingTab # NullRef
       THEN /\ resetCurrentAdapter
            /\ page' = [page EXCEPT !.nav.tab = page.nav.pendingTab,
                                    !.nav.pendingTab = NullRef,
                                    !.nav.showUnsavedChangesDialog = FALSE]
       ELSE /\ inbox' = inbox
            /\ page' = [page EXCEPT !.nav.showUnsavedChangesDialog = FALSE]
    /\ UNCHANGED << trackerVars, localForm, model, timers, pushes, lastEvent, deviceVars,
                    networkPending, newIpProbesInFlight, redirectedTo >>

\* cancelTabChange of DeviceNetworks.vue
cancelTabChange ==
    /\ OnNetworkPage
    /\ page.nav.showUnsavedChangesDialog
    /\ TabWatcherIdle
    /\ page' = [page EXCEPT !.nav.pendingTab = NullRef,
                            !.nav.showUnsavedChangesDialog = FALSE]
    /\ UNCHANGED pageOnlyVars

\* Routes the operator can go to from the network page.
OtherRoutes == {"/"}

\* The operator follows a link to another page: onBeforeRouteLeave of the
\* network page answers. A navigation that is let pass unmounts the page.
LeaveNetworkPage ==
    /\ OnNetworkPage
    /\ NoUnsavedDialog
    /\ TabWatcherIdle
    /\ FormSettled
    /\ \E to \in OtherRoutes :
          page' = IF model.networkFormState.dirty
                  THEN [page EXCEPT !.nav.showNavigationDialog = TRUE,
                                    !.nav.pendingNavigation = to]
                  ELSE [page EXCEPT !.route = to, !.nav = Unmounted]
    /\ UNCHANGED pageOnlyVars

\* confirmNavigation of the network page. The saved callback is the next of a
\* guard that has already answered false; whether calling it afterwards still
\* navigates is decided by the router, so both outcomes are kept.
confirmNavigation ==
    /\ OnNetworkPage
    /\ page.nav.showNavigationDialog
    /\ resetCurrentAdapter
    /\ \E navigates \in BOOLEAN :
          page' = IF page.nav.pendingNavigation # NullRef /\ navigates
                  THEN [page EXCEPT !.route = page.nav.pendingNavigation,
                                    !.nav = Unmounted]
                  ELSE [page EXCEPT !.nav.showNavigationDialog = FALSE,
                                    !.nav.pendingNavigation = NullRef]
    /\ UNCHANGED << trackerVars, localForm, model, timers, pushes, lastEvent, deviceVars,
                    networkPending, newIpProbesInFlight, redirectedTo >>

\* cancelNavigation of the network page
cancelNavigation ==
    /\ OnNetworkPage
    /\ page.nav.showNavigationDialog
    /\ page' = [page EXCEPT !.nav.showNavigationDialog = FALSE,
                            !.nav.pendingNavigation = NullRef]
    /\ UNCHANGED pageOnlyVars

\* The operator opens the network page again.
OpenNetworkPage ==
    /\ PageAlive
    /\ page.route \in OtherRoutes
    /\ page' = [page EXCEPT !.route = "/network", !.nav = InitNavigation]
    /\ UNCHANGED pageOnlyVars

\* The operator edits the form of the adapter that is shown.
EditShownAdapter ==
    /\ OnNetworkPage
    /\ NoUnsavedDialog
    /\ TabWatcherIdle
    /\ page.nav.tab # NullRef
    /\ (UserEdit \/ UserSelectAssignment \/ UserEditDns)

InitUnsaved ==
    /\ model = InitModel
    /\ app = InitApp
    /\ localForm = InitLocalForm
    /\ inbox = << >>
    /\ timers = NoTimers
    /\ commandPending = "None"
    /\ probesInFlight = 0
    /\ dialog = "None"
    /\ opElapsed = 0
    /\ pushes = 0
    /\ lastEvent = [type |-> "None", result |-> "none"]
    /\ networkPending = NoConfig
    /\ newIpProbesInFlight = 0
    /\ redirectedTo = "none"
    /\ page = [LoadedPage EXCEPT !.route = "/network", !.nav = InitNavigation]
    /\ device = QuietDevice

NextUnsaved ==
    \/ SelectTab
    \/ TabWatcherRuns
    \/ confirmTabChange
    \/ cancelTabChange
    \/ LeaveNetworkPage
    \/ confirmNavigation
    \/ cancelNavigation
    \/ OpenNetworkPage
    \/ EditShownAdapter
    \/ Dispatch

SpecUnsaved == InitUnsaved /\ [][NextUnsaved]_vars

TabSwitches ==
    /\ page.route = "/network" /\ page'.route = "/network"
    /\ page.nav.oldTab # NullRef
    /\ page'.nav.oldTab \notin {NullRef, page.nav.oldTab}

LeavesNetworkPage == page.route = "/network" /\ page'.route # "/network"

TabChangeConfirmed ==
    /\ page.route = "/network" /\ page'.route = "/network"
    /\ page.nav.showUnsavedChangesDialog
    /\ page'.nav.tab # page.nav.tab

====
